---- MODULE Spec2Model ----
(***************************************************************************)
(* A model of the OpenAlex local API: the filter-expression parser and     *)
(* MongoDB query builder of bin/filter_utils.py, the generic entity        *)
(* handlers of bin/handlers.py, the routes of bin/entity_router.py and the *)
(* Elasticsearch adapter of bin/es_handler.py, for one request at a time   *)
(* and for requests in progress at once on one handler.                    *)
(*                                                                         *)
(* Text.  A Python str is a sequence of characters.  A character of the    *)
(* model is a TLA+ string: a punctuation mark, a digit, a single letter,   *)
(* or a whole word of letters and underscores ("publication_year") that    *)
(* the code only ever compares or copies as a whole.  All the splitting,   *)
(* searching, stripping and decoding of the code is done on these          *)
(* sequences as the code does it on characters.                            *)
(*                                                                         *)
(* Values.  A coerced filter value (int, bool, str, None, list) is a       *)
(* record [k, n, s, l] with the kind in k.  A MongoDB query (a dict) is a  *)
(* sequence of entries [key, cond] in insertion order.                     *)
(***************************************************************************)
EXTENDS Integers, Sequences, FiniteSets, TLC

VARIABLES
    pc,     \* position of the call or request in progress
    inp,    \* the input drawn for it
    ret,    \* what the function or handler returned
    query,  \* the MongoDB query built for it
    resp,   \* what the caller of the endpoint receives
    calls,  \* the operations sent to the document store and the search backend
    fault,  \* where the storage layer failed during the request, if it did
    self    \* the attributes of the handler object that serves the requests

vars == <<pc, inp, ret, query, resp, calls, fault, self>>

(***************************************************************************)
(* Bounds of the model.                                                    *)
(***************************************************************************)
MaxExprs == 3      \* comma-separated pieces of a filter string
MaxInt == 2        \* integers -MaxInt..MaxInt are written into filter values
MaxDocs == 4       \* documents in the collection
MaxSkip == 2       \* skip of a search request
MaxLimit == 2      \* limit of a search request
MaxPage == 2       \* page of a list request
MaxPerPage == 2    \* per_page of a list request
MaxTokens == 2     \* comma-separated tokens of a sort string

(***************************************************************************)
(* str operations                                                          *)
(***************************************************************************)
Whitespace == {" "}
Digits == {"0", "1", "2", "3", "4", "5", "6", "7", "8", "9"}
HexDigits == Digits \cup {"C"}

DigitVal(c) ==
    CASE c = "0" -> 0 [] c = "1" -> 1 [] c = "2" -> 2 [] c = "3" -> 3
      [] c = "4" -> 4 [] c = "5" -> 5 [] c = "6" -> 6 [] c = "7" -> 7
      [] c = "8" -> 8 [] c = "9" -> 9

DigitChar(d) ==
    CASE d = 0 -> "0" [] d = 1 -> "1" [] d = 2 -> "2" [] d = 3 -> "3"
      [] d = 4 -> "4" [] d = 5 -> "5" [] d = 6 -> "6" [] d = 7 -> "7"
      [] d = 8 -> "8" [] d = 9 -> "9"

StartsWith(s, p) == Len(p) <= Len(s) /\ SubSeq(s, 1, Len(p)) = p

EndsWith(s, p) == Len(p) <= Len(s) /\ SubSeq(s, Len(s) - Len(p) + 1, Len(s)) = p

OccursAt(s, sub, i) ==
    i + Len(sub) - 1 <= Len(s) /\ SubSeq(s, i, i + Len(sub) - 1) = sub

\* str.find + 1: the position of the first occurrence of sub in s, 0 if none
Find(s, sub) ==
    LET hits == {i \in 1..Len(s) : OccursAt(s, sub, i)}
    IN  IF hits = {} THEN 0 ELSE CHOOSE i \in hits : \A j \in hits : i <= j

\* sub in s
Contains(s, sub) == Find(s, sub) > 0

\* s.split(sub, 1) for a sub that occurs in s
SplitOnce(s, sub) ==
    LET i == Find(s, sub)
    IN  <<SubSeq(s, 1, i - 1), SubSeq(s, i + Len(sub), Len(s))>>

\* s.split(sub)
RECURSIVE Split(_, _)
Split(s, sub) ==
    IF ~Contains(s, sub) THEN <<s>>
    ELSE LET p == SplitOnce(s, sub) IN <<p[1]>> \o Split(p[2], sub)

\* sep.join(parts)
RECURSIVE Join(_, _)
Join(parts, sep) ==
    IF Len(parts) = 0 THEN <<>>
    ELSE IF Len(parts) = 1 THEN parts[1]
    ELSE parts[1] \o sep \o Join(Tail(parts), sep)

\* s.replace(a, b)
Replace(s, a, b) == Join(Split(s, a), b)

\* s.strip()
Strip(s) ==
    LET keep == {i \in 1..Len(s) : s[i] \notin Whitespace}
    IN  IF keep = {} THEN <<>>
        ELSE SubSeq(s, CHOOSE i \in keep : \A j \in keep : i <= j,
                       CHOOSE i \in keep : \A j \in keep : i >= j)

\* the lower-case form of one character or word
LowerChar(c) ==
    CASE c = "NULL" -> "null"
      [] c = "None" -> "none"
      [] c = "True" -> "true"
      [] c = "YES" -> "yes"
      [] c = "T" -> "t"
      [] c = "EN" -> "en"
      [] c = "W" -> "w"
      [] c = "Neural" -> "neural"
      [] c = "DESC" -> "desc"
      [] c = "ASC" -> "asc"
      [] c = "Asc" -> "asc"
      [] c = "C" -> "c"
      [] OTHER -> c

\* s.lower()
Lower(s) == [i \in 1..Len(s) |-> LowerChar(s[i])]

\* the character a %XX escape stands for; "<byte>" is any character outside
\* the model's alphabet
HexDecode(h1, h2) ==
    CASE h1 = "7" /\ h2 = "C" -> "|"
      [] h1 = "2" /\ h2 = "C" -> ","
      [] h1 = "2" /\ h2 = "0" -> " "
      [] h1 = "2" /\ h2 = "1" -> "!"
      [] h1 = "3" /\ h2 = "C" -> "<"
      [] h1 = "3" /\ h2 = "0" -> "0"
      [] h1 = "3" /\ h2 = "1" -> "1"
      [] h1 = "3" /\ h2 = "2" -> "2"
      [] OTHER -> "<byte>"

\* urllib.parse.unquote(s)
RECURSIVE unquote(_)
unquote(s) ==
    IF s = <<>> THEN <<>>
    ELSE IF s[1] = "%" /\ Len(s) >= 3 /\ s[2] \in HexDigits /\ s[3] \in HexDigits
         THEN <<HexDecode(s[2], s[3])>> \o unquote(SubSeq(s, 4, Len(s)))
         ELSE <<s[1]>> \o unquote(Tail(s))

\* the text int() converts: optional surrounding whitespace, an optional sign,
\* then digits
IntBody(s) ==
    LET t == Strip(s)
    IN  IF t # <<>> /\ t[1] \in {"-", "+"} THEN Tail(t) ELSE t

IsIntLiteral(s) ==
    /\ IntBody(s) # <<>>
    /\ \A i \in 1..Len(IntBody(s)) : IntBody(s)[i] \in Digits

RECURSIVE DigitsValue(_)
DigitsValue(ds) ==
    IF ds = <<>> THEN 0
    ELSE 10 * DigitsValue(SubSeq(ds, 1, Len(ds) - 1)) + DigitVal(ds[Len(ds)])

\* int(s) for a string that int() accepts
IntOf(s) ==
    LET t == Strip(s)
    IN  IF t[1] = "-" THEN 0 - DigitsValue(IntBody(s)) ELSE DigitsValue(IntBody(s))

\* str(n) of a non-negative integer, and of any integer
RECURSIVE NatToStr(_)
NatToStr(n) ==
    IF n < 10 THEN <<DigitChar(n)>> ELSE NatToStr(n \div 10) \o <<DigitChar(n % 10)>>

IntToStr(n) == IF n < 0 THEN <<"-">> \o NatToStr(0 - n) ELSE NatToStr(n)

(***************************************************************************)
(* Coerced values                                                          *)
(***************************************************************************)
StrV(s) == [k |-> "str", n |-> 0, s |-> s, l |-> <<>>]
IntV(n) == [k |-> "int", n |-> n, s |-> <<>>, l |-> <<>>]
BoolV(b) == [k |-> "bool", n |-> IF b THEN 1 ELSE 0, s |-> <<>>, l |-> <<>>]
NullV == [k |-> "null", n |-> 0, s |-> <<>>, l |-> <<>>]
ListV(l) == [k |-> "list", n |-> 0, s |-> <<>>, l |-> l]

(***************************************************************************)
(* filter_utils.py: tables                                                 *)
(***************************************************************************)
\* FILTER_OPERATIONS, in the dict's insertion order
FILTER_OPERATIONS ==
    << [marker |-> <<":">>, name |-> "eq"],
       [marker |-> <<">">>, name |-> "gt"],
       [marker |-> <<"<">>, name |-> "lt"],
       [marker |-> <<">", "=">>, name |-> "gte"],
       [marker |-> <<"<", "=">>, name |-> "lte"],
       [marker |-> <<"!", "=">>, name |-> "ne"],
       [marker |-> <<".", "search", ":">>, name |-> "search"],
       [marker |-> <<".", "equals", ":">>, name |-> "exact"] >>

\* the keys of FILTER_TYPE_MAPPING (every one maps to int)
FILTER_TYPE_MAPPING ==
    { <<"publication_year">>, <<"cited_by_count">>, <<"works_count">>, <<"level">>,
      <<"h_index">>, <<"i10_index">>, <<"counts">>, <<"year">>, <<"volume">>,
      <<"issue">> }

BOOLEAN_FIELDS ==
    { <<"has_doi">>, <<"has_pdf">>, <<"has_references">>, <<"is_oa">>,
      <<"is_retracted">>, <<"has_fulltext">>, <<"is_paratext">> }

(***************************************************************************)
(* filter_utils.py: parse_filter_value                                     *)
(***************************************************************************)
\* a variant of parse_filter_value that compares a boolean value as written
parse_filter_value_exact(field_name, value) ==
    IF \/ field_name \in BOOLEAN_FIELDS
       \/ \E bf \in BOOLEAN_FIELDS : EndsWith(field_name, <<".">> \o bf)
    THEN BoolV(value \in {<<"true">>, <<"1">>, <<"yes">>, <<"t">>})
    ELSE IF Lower(value) \in {<<"null">>, <<"none">>}
    THEN NullV
    ELSE IF field_name \in FILTER_TYPE_MAPPING /\ IsIntLiteral(value)
    THEN IntV(IntOf(value))
    ELSE IF (EndsWith(field_name, <<".", "id">>) \/ field_name = <<"id">>)
            /\ Contains(value, <<"/">>)
    THEN StrV(Split(value, <<"/">>)[Len(Split(value, <<"/">>))])
    ELSE StrV(value)

\* a variant of parse_filter_value that gives None for a numeric field whose
\* value is not an integer
parse_filter_value_drop(field_name, value) ==
    IF \/ field_name \in BOOLEAN_FIELDS
       \/ \E bf \in BOOLEAN_FIELDS : EndsWith(field_name, <<".">> \o bf)
    THEN BoolV(Lower(value) \in {<<"true">>, <<"1">>, <<"yes">>, <<"t">>})
    ELSE IF Lower(value) \in {<<"null">>, <<"none">>}
    THEN NullV
    ELSE IF field_name \in FILTER_TYPE_MAPPING
    THEN IF IsIntLiteral(value) THEN IntV(IntOf(value)) ELSE NullV
    ELSE IF (EndsWith(field_name, <<".", "id">>) \/ field_name = <<"id">>)
            /\ Contains(value, <<"/">>)
    THEN StrV(Split(value, <<"/">>)[Len(Split(value, <<"/">>))])
    ELSE StrV(value)

\* a variant of parse_filter_value that keeps the first path segment of a URI
parse_filter_value_first(field_name, value) ==
    IF \/ field_name \in BOOLEAN_FIELDS
       \/ \E bf \in BOOLEAN_FIELDS : EndsWith(field_name, <<".">> \o bf)
    THEN BoolV(Lower(value) \in {<<"true">>, <<"1">>, <<"yes">>, <<"t">>})
    ELSE IF Lower(value) \in {<<"null">>, <<"none">>}
    THEN NullV
    ELSE IF field_name \in FILTER_TYPE_MAPPING /\ IsIntLiteral(value)
    THEN IntV(IntOf(value))
    ELSE IF (EndsWith(field_name, <<".", "id">>) \/ field_name = <<"id">>)
            /\ Contains(value, <<"/">>)
    THEN StrV(Split(value, <<"/">>)[1])
    ELSE StrV(value)

parse_filter_value(field_name, value) ==
    IF \/ field_name \in BOOLEAN_FIELDS
       \/ \E bf \in BOOLEAN_FIELDS : EndsWith(field_name, <<".">> \o bf)
    THEN BoolV(Lower(value) \in {<<"true">>, <<"1">>, <<"yes">>, <<"t">>})
    ELSE IF Lower(value) \in {<<"null">>, <<"none">>}
    THEN NullV
    ELSE IF field_name \in FILTER_TYPE_MAPPING /\ IsIntLiteral(value)
    THEN IntV(IntOf(value))
    ELSE IF (EndsWith(field_name, <<".", "id">>) \/ field_name = <<"id">>)
            /\ Contains(value, <<"/">>)
    THEN StrV(Split(value, <<"/">>)[Len(Split(value, <<"/">>))])
    ELSE StrV(value)

(***************************************************************************)
(* filter_utils.py: parse_filter_expression                                *)
(***************************************************************************)
\* the value of an expression from the text after the marker: decoded, and
\* split into a list of independently coerced values when it contains "|"
ExprValue(field_name, raw) ==
    LET value == unquote(Replace(raw, <<"+">>, <<" ">>))
        toks == Split(value, <<"|">>)
    IN  IF Contains(value, <<"|">>)
        THEN ListV([i \in 1..Len(toks) |-> parse_filter_value(field_name, Strip(toks[i]))])
        ELSE parse_filter_value(field_name, value)

\* the positions of FILTER_OPERATIONS the loop can stop at: every marker but
\* ":" that occurs in the expression
SpecialHits(filter_expr) ==
    { i \in 1..Len(FILTER_OPERATIONS) :
        /\ FILTER_OPERATIONS[i].marker # <<":">>
        /\ Contains(filter_expr, FILTER_OPERATIONS[i].marker) }

parse_filter_expression(filter_expr) ==
    IF SpecialHits(filter_expr) # {}
    THEN LET i == CHOOSE h \in SpecialHits(filter_expr) :
                      \A j \in SpecialHits(filter_expr) : h <= j
             parts == SplitOnce(filter_expr, FILTER_OPERATIONS[i].marker)
         IN  [field |-> parts[1], op |-> FILTER_OPERATIONS[i].name,
              value |-> ExprValue(parts[1], parts[2])]
    ELSE IF Contains(filter_expr, <<":">>)
    THEN LET parts == SplitOnce(filter_expr, <<":">>)
         IN  [field |-> parts[1], op |-> "eq", value |-> ExprValue(parts[1], parts[2])]
    ELSE [field |-> <<>>, op |-> "", value |-> NullV]

(***************************************************************************)
(* MongoDB queries: a dict is a sequence of entries [key, cond]            *)
(***************************************************************************)
Entry(key, cond) == [key |-> key, cond |-> cond]

\* {key: v}
CVal(v) == [c |-> "val", op |-> "", sub |-> <<>>, v |-> v, l |-> <<>>]
\* {key: {op: v}}
COp(op, v) == [c |-> "op", op |-> op, sub |-> <<>>, v |-> v, l |-> <<>>]
\* {key: {"$regex": v, "$options": "i"}}
CRegex(v) == [c |-> "regex", op |-> "", sub |-> <<>>, v |-> v, l |-> <<>>]
\* {key: {"$exists": v}}
CExists(v) == [c |-> "exists", op |-> "", sub |-> <<>>, v |-> v, l |-> <<>>]
\* {key: {"$exists": v, "$ne": []}}
CExistsNe(v) == [c |-> "exists_ne", op |-> "", sub |-> <<>>, v |-> v, l |-> <<>>]
\* {key: {"$elemMatch": {sub: {op: v}}}}
CElem(sub, op, v) == [c |-> "elem", op |-> op, sub |-> sub, v |-> v, l |-> <<>>]
\* {"$or": l} and {"$and": l}, l a list of dicts
CList(l) == [c |-> "list", op |-> "", sub |-> <<>>, v |-> NullV, l |-> l]

Keys(d) == {d[i].key : i \in 1..Len(d)}

\* d.update(u): a key of u that d has keeps its place and takes u's value, a
\* new key is appended
RECURSIVE DictUpdate(_, _)
DictUpdate(d, u) ==
    IF u = <<>> THEN d
    ELSE LET e == Head(u)
             d1 == IF e.key \in Keys(d)
                   THEN [i \in 1..Len(d) |-> IF d[i].key = e.key THEN e ELSE d[i]]
                   ELSE Append(d, e)
         IN  DictUpdate(d1, Tail(u))

\* a call that returned a value, and a call that raised
Return(v) == [raised |-> FALSE, val |-> v]
Raise == [raised |-> TRUE, val |-> <<>>]

(***************************************************************************)
(* filter_utils.py: build_mongodb_query                                    *)
(***************************************************************************)
\* a variant of MongoOp that compares for equality whatever the operation
MongoOpEq(operation) == "$eq"

\* a variant of MongoOp that takes gt for lt and lt for gt
MongoOpSwapped(operation) ==
    CASE operation = "eq" -> "$eq"
      [] operation = "gt" -> "$lt"
      [] operation = "lt" -> "$gt"
      [] operation = "gte" -> "$gte"
      [] operation = "lte" -> "$lte"
      [] operation = "ne" -> "$ne"
      [] OTHER -> "$eq"

\* op_map.get(operation, "$eq")
MongoOp(operation) ==
    CASE operation = "eq" -> "$eq"
      [] operation = "gt" -> "$gt"
      [] operation = "lt" -> "$lt"
      [] operation = "gte" -> "$gte"
      [] operation = "lte" -> "$lte"
      [] operation = "ne" -> "$ne"
      [] OTHER -> "$eq"

\* a variant of BuildScalar that looks at a null value after the special fields
BuildScalarNullLast(field, operation, value) ==
    LET mongo_op == MongoOp(operation)
        parts == Split(field, <<".">>)
    IN
    IF operation = "search"
    THEN Return(<<Entry(Replace(field, <<".", "search">>, <<>>), CRegex(value))>>)
    ELSE IF operation = "exact"
    THEN Return(<<Entry(Replace(field, <<".", "equals">>, <<>>), CVal(value))>>)
    ELSE IF StartsWith(field, <<"authorships", ".">>) /\ Len(parts) >= 3
    THEN Return(<<Entry(<<"authorships">>,
                        CElem(Join(Tail(parts), <<".">>), mongo_op, value))>>)
    ELSE IF StartsWith(field, <<"institutions", ".">>)
    THEN Return(<<Entry(<<"institutions">>, CElem(parts[2], mongo_op, value))>>)
    ELSE IF StartsWith(field, <<"concepts", ".">>)
    THEN Return(<<Entry(<<"concepts">>, CElem(parts[2], mongo_op, value))>>)
    ELSE IF StartsWith(field, <<"source", ".">>)
    THEN Return(<<Entry(<<"$or">>, CList(<<
            <<Entry(<<"primary_location", ".", "source", ".">> \o parts[2],
                    COp(mongo_op, value))>>,
            <<Entry(<<"locations", ".", "source", ".">> \o parts[2],
                    COp(mongo_op, value))>> >>))>>)
    ELSE IF field = <<"cited_by_count">>
    THEN Return(<<Entry(<<"cited_by_count">>, COp(mongo_op, value))>>)
    ELSE IF field = <<"has_doi">>
    THEN Return(<<Entry(<<"ids", ".", "doi">>, CExists(value))>>)
    ELSE IF field = <<"has_pdf">>
    THEN Return(<<Entry(<<"open_access", ".", "is_oa">>, CVal(value))>>)
    ELSE IF field = <<"has_references">>
    THEN Return(<<Entry(<<"referenced_works">>, CExistsNe(value))>>)
    ELSE IF field = <<"is_oa">> \/ field = <<"open_access", ".", "is_oa">>
    THEN Return(<<Entry(<<"open_access", ".", "is_oa">>, CVal(value))>>)
    ELSE IF field = <<"from_publication_date">> \/ field = <<"to_publication_date">>
    THEN Return(<<Entry(<<"publication_date">>, COp(mongo_op, value))>>)
    ELSE IF field = <<"language">>
    THEN \* value.lower(): only a str has it
         IF value.k = "str"
         THEN Return(<<Entry(<<"language">>, CVal(StrV(Lower(value.s))))>>)
         ELSE Raise
    ELSE IF (field = <<"cites">> \/ field = <<"cites", ".", "id">>)
            /\ value.k = "str" /\ StartsWith(value.s, <<"W">>)
    THEN Return(<<Entry(<<"referenced_works">>,
                        CVal(StrV(Split(value.s, <<"/">>)[Len(Split(value.s, <<"/">>))])))>>)
    ELSE IF value.k = "null" /\ operation = "eq"
    THEN Return(<<Entry(field, CVal(NullV))>>)
    ELSE IF value.k = "null" /\ operation = "ne"
    THEN Return(<<Entry(field, COp("$ne", NullV))>>)
    ELSE Return(<<Entry(field, COp(mongo_op, value))>>)

\* the branches of build_mongodb_query for a value that is not a list
BuildScalar(field, operation, value) ==
    LET mongo_op == MongoOp(operation)
        parts == Split(field, <<".">>)
    IN
    IF operation = "search"
    THEN Return(<<Entry(Replace(field, <<".", "search">>, <<>>), CRegex(value))>>)
    ELSE IF operation = "exact"
    THEN Return(<<Entry(Replace(field, <<".", "equals">>, <<>>), CVal(value))>>)
    ELSE IF value.k = "null" /\ operation = "eq"
    THEN Return(<<Entry(field, CVal(NullV))>>)
    ELSE IF value.k = "null" /\ operation = "ne"
    THEN Return(<<Entry(field, COp("$ne", NullV))>>)
    ELSE IF StartsWith(field, <<"authorships", ".">>) /\ Len(parts) >= 3
    THEN Return(<<Entry(<<"authorships">>,
                        CElem(Join(Tail(parts), <<".">>), mongo_op, value))>>)
    ELSE IF StartsWith(field, <<"institutions", ".">>)
    THEN Return(<<Entry(<<"institutions">>, CElem(parts[2], mongo_op, value))>>)
    ELSE IF StartsWith(field, <<"concepts", ".">>)
    THEN Return(<<Entry(<<"concepts">>, CElem(parts[2], mongo_op, value))>>)
    ELSE IF StartsWith(field, <<"source", ".">>)
    THEN Return(<<Entry(<<"$or">>, CList(<<
            <<Entry(<<"primary_location", ".", "source", ".">> \o parts[2],
                    COp(mongo_op, value))>>,
            <<Entry(<<"locations", ".", "source", ".">> \o parts[2],
                    COp(mongo_op, value))>> >>))>>)
    ELSE IF field = <<"cited_by_count">>
    THEN Return(<<Entry(<<"cited_by_count">>, COp(mongo_op, value))>>)
    ELSE IF field = <<"has_doi">>
    THEN Return(<<Entry(<<"ids", ".", "doi">>, CExists(value))>>)
    ELSE IF field = <<"has_pdf">>
    THEN Return(<<Entry(<<"open_access", ".", "is_oa">>, CVal(value))>>)
    ELSE IF field = <<"has_references">>
    THEN Return(<<Entry(<<"referenced_works">>, CExistsNe(value))>>)
    ELSE IF field = <<"is_oa">> \/ field = <<"open_access", ".", "is_oa">>
    THEN Return(<<Entry(<<"open_access", ".", "is_oa">>, CVal(value))>>)
    ELSE IF field = <<"from_publication_date">> \/ field = <<"to_publication_date">>
    THEN Return(<<Entry(<<"publication_date">>, COp(mongo_op, value))>>)
    ELSE IF field = <<"language">>
    THEN \* value.lower(): only a str has it
         IF value.k = "str"
         THEN Return(<<Entry(<<"language">>, CVal(StrV(Lower(value.s))))>>)
         ELSE Raise
    ELSE IF (field = <<"cites">> \/ field = <<"cites", ".", "id">>)
            /\ value.k = "str" /\ StartsWith(value.s, <<"W">>)
    THEN Return(<<Entry(<<"referenced_works">>,
                        CVal(StrV(Split(value.s, <<"/">>)[Len(Split(value.s, <<"/">>))])))>>)
    ELSE Return(<<Entry(field, COp(mongo_op, value))>>)

\* a builder that forgets the values after the first of a list
build_mongodb_query_first(field, operation, value) ==
    IF value.k = "list"
    THEN BuildScalar(field, operation, value.l[1])
    ELSE BuildScalar(field, operation, value)

RECURSIVE build_mongodb_query(_, _, _)
build_mongodb_query(field, operation, value) ==
    IF value.k = "list"
    THEN LET or_conditions ==
                 [i \in 1..Len(value.l) |->
                     build_mongodb_query(field, operation, value.l[i])]
         IN  IF \E i \in 1..Len(value.l) : or_conditions[i].raised
             THEN Raise
             ELSE Return(<<Entry(<<"$or">>,
                     CList([i \in 1..Len(value.l) |-> or_conditions[i].val]))>>)
    ELSE BuildScalar(field, operation, value)

(***************************************************************************)
(* filter_utils.py: parse_filter_param                                     *)
(***************************************************************************)
\* whether the loop skips the expression: empty after strip(), or parsed to an
\* empty field, no operation or a None value
Discarded(expr) ==
    \/ Strip(expr) = <<>>
    \/ LET p == parse_filter_expression(Strip(expr))
       IN  p.field = <<>> \/ p.op = "" \/ p.value.k = "null"

\* a merge that always updates the query in place, so that a later condition on
\* a key replaces the earlier one
RECURSIVE MergeExprsOverwrite(_, _, _)
MergeExprsOverwrite(exprs, q, and_conditions) ==
    IF exprs = <<>> THEN Return(q)
    ELSE IF Discarded(Head(exprs))
    THEN MergeExprsOverwrite(Tail(exprs), q, and_conditions)
    ELSE LET p == parse_filter_expression(Strip(Head(exprs)))
             expr_query == build_mongodb_query(p.field, p.op, p.value)
         IN  IF expr_query.raised THEN Raise
             ELSE MergeExprsOverwrite(Tail(exprs), DictUpdate(q, expr_query.val),
                                      and_conditions)

\* the loop over the expressions, with the query and the $and list so far
RECURSIVE MergeExprs(_, _, _)
MergeExprs(exprs, q, and_conditions) ==
    IF exprs = <<>>
    THEN IF and_conditions # <<>>
         THEN IF q # <<>>
              THEN Return(<<Entry(<<"$and">>, CList(Append(and_conditions, q)))>>)
              ELSE Return(<<Entry(<<"$and">>, CList(and_conditions))>>)
         ELSE Return(q)
    ELSE IF Discarded(Head(exprs))
    THEN MergeExprs(Tail(exprs), q, and_conditions)
    ELSE LET p == parse_filter_expression(Strip(Head(exprs)))
             expr_query == build_mongodb_query(p.field, p.op, p.value)
         IN  IF expr_query.raised THEN Raise
             ELSE IF Keys(expr_query.val) \cap Keys(q) # {}
             THEN MergeExprs(Tail(exprs), q, Append(and_conditions, expr_query.val))
             ELSE MergeExprs(Tail(exprs), DictUpdate(q, expr_query.val), and_conditions)

parse_filter_param(filter_param) ==
    IF filter_param = <<>> THEN Return(<<>>)
    ELSE MergeExprs(Split(filter_param, <<",">>), <<>>, <<>>)

(***************************************************************************)
(* The filter functions as a machine: an input is drawn, then the function *)
(* is applied.  An expression goes through the two steps of the loop body  *)
(* of parse_filter_param: parse_filter_expression, then                    *)
(* build_mongodb_query on what it returned.                                *)
(***************************************************************************)
NoValue == [none |-> TRUE]

\* field names written into filter expressions
FilterFields ==
    { <<"publication_year">>, <<"cited_by_count">>, <<"type">>, <<"has_doi">>,
      <<"open_access", ".", "is_oa">>, <<"language">>, <<"cites">>,
      <<"cites", ".", "id">>, <<"institutions", ".", "id">>,
      <<"authorships", ".", "author", ".", "id">>, <<"source", ".", "id">>,
      <<"authorships", ".", "is_corresponding">> }

\* the eight operator markers of the grammar, written directly after the field
PlainMarkers == {FILTER_OPERATIONS[i].marker : i \in 1..Len(FILTER_OPERATIONS)}

\* the comparison markers
ComparisonMarkers ==
    { <<">">>, <<"<">>, <<">", "=">>, <<"<", "=">>, <<"!", "=">> }

\* the wire form of a comparison, field:>value: the marker after a colon
WireMarkers == {<<":">> \o m : m \in ComparisonMarkers}

\* the integers written into values
Numbers == (0 - MaxInt)..MaxInt \cup {100, 2018}

\* the text after the marker
RawValues ==
    {IntToStr(n) : n \in Numbers} \cup
    { <<"null">>, <<"NULL">>, <<"None">>, <<"true">>, <<"True">>, <<"false">>,
      <<"en">>, <<"EN">>, <<"book">>, <<"W", "1">>,
      <<"2", "0", "x">>,
      <<"https", ":", "/", "/", "openalex", ".", "org", "/", "W", "1">>,
      <<"en", "|", "null">>, <<"null", "|", "None">>,
      <<"book", "|", "article", "|", "book">>,
      <<"book", "+", "|", "+", "article">>,
      <<"2", "0", "1", "8", "%", "7", "C", "2", "0", "1", "9">>,
      <<"neural", "+", "networks">>,
      <<"a", ">", "b">> }

\* pieces of a filter string
ParamPieces ==
    { <<"type", ":", "book">>, <<"type", ":", "article">>,
      <<"publication_year", ":", "2", "0", "1", "8">>,
      <<"cited_by_count", ":", ">", "1", "0", "0">>,
      <<"type", ":", "book", "|", "article">>,
      <<"language", ":", "en", "|", "EN">>,
      <<"is_oa", ":", "true">>, <<"has_pdf", ":", "false">>,
      <<"type", ":", "null">>,
      <<"language", ">", "en", "|", "null">>,
      <<" ", "type", ":", "book", " ">>,
      <<>>, <<"junk">> }

\* the filter strings: up to MaxExprs pieces joined by commas
RECURSIVE PieceSeqs(_)
PieceSeqs(n) ==
    IF n = 0 THEN {<<>>}
    ELSE PieceSeqs(n - 1) \cup
         {Append(ps, p) : ps \in {q \in PieceSeqs(n - 1) : Len(q) = n - 1}, p \in ParamPieces}

\* values for the boolean and the numeric fields: the spellings of true,
\* other words, integers with sign and blanks, and texts that are no integer
CoercionValues ==
    { <<"true">>, <<"True">>, <<"1">>, <<"yes">>, <<"YES">>, <<"t">>, <<"T">>,
      <<"false">>, <<"0">>, <<"no">>, <<"null">>, <<"None">>, <<" ", "true">>, <<>>,
      <<"1", "2">>, <<" ", "1", "2", " ">>, <<"-", "5">>, <<"+", "3">>,
      <<"abc">>, <<"1", ".", "5">>, <<"1", "2", "abc">>, <<"-">>, <<"1", " ", "2">> }

\* the boolean fields, paths that end in one, and the numeric fields
CoercionFields ==
    BOOLEAN_FIELDS \cup {<<"open_access", ".">> \o bf : bf \in BOOLEAN_FIELDS}
    \cup FILTER_TYPE_MAPPING

\* the field id and paths that end in .id
IdFields ==
    { <<"id">>, <<"institutions", ".", "id">>, <<"cites", ".", "id">>,
      <<"authorships", ".", "author", ".", "id">>, <<"source", ".", "id">>,
      <<"concepts", ".", "id">> }

\* full URIs and other values with a slash
UriValues ==
    { <<"https", ":", "/", "/", "example", ".", "org", "/", "I12345">>,
      <<"https", ":", "/", "/", "openalex", ".", "org", "/", "W", "1">>,
      <<"https", ":", "/", "/", "example", ".", "org", ":", "8", "0", "/", "a", "/", "W", "1">>,
      <<"https", ":", "/", "/", "example", ".", "org", "/", "I12345", "/">>,
      <<"https", ":", "/", "/", "example", ".", "org", "/", "neural", "+", "networks">>,
      <<"a", "/", "null">>, <<"/", "1", "2">> }

\* fields handed to build_mongodb_query: the special-cased ones and others
BuildFields ==
    { <<"source", ".", "id">>, <<"source", ".", "display_name">>,
      <<"authorships", ".", "author", ".", "id">>,
      <<"authorships", ".", "institutions", ".", "country_code">>,
      <<"authorships", ".", "is_corresponding">>,
      <<"institutions", ".", "id">>, <<"institutions", ".", "country_code">>,
      <<"concepts", ".", "id">>,
      <<"has_doi">>, <<"has_pdf">>, <<"has_references">>, <<"is_oa">>,
      <<"open_access", ".", "is_oa">>, <<"language">>, <<"cites">>,
      <<"cites", ".", "id">>, <<"cited_by_count">>, <<"publication_year">>,
      <<"type">>, <<"from_publication_date">>, <<"to_publication_date">> }

\* the comparison operators
BuildOperations == {"eq", "gt", "lt", "gte", "lte", "ne"}

\* coerced values: null and scalars of every type
BuildValues ==
    { NullV, StrV(<<"en">>), StrV(<<"EN">>), StrV(<<"W", "1">>),
      StrV(<<"2", "0", "2", "0", "-", "0", "1">>),
      IntV(0), IntV(MaxInt), BoolV(TRUE), BoolV(FALSE) }

\* a work id, short and as a full URI
WorkIdValues ==
    { <<"W", "1">>, <<"https", ":", "/", "/", "openalex", ".", "org", "/", "W", "1">> }

FilterInputs ==
    {[fn |-> "parse_filter_param", op |-> "", arg |-> NullV, field |-> f,
      marker |-> <<":">>, value |-> v,
      text |-> f \o <<":">> \o v, pieces |-> <<f \o <<":">> \o v>>] :
        f \in {<<"cites">>, <<"cites", ".", "id">>}, v \in WorkIdValues}
    \cup
    {[fn |-> "build_mongodb_query", op |-> o, arg |-> v, field |-> f, marker |-> <<>>,
      value |-> <<>>, text |-> <<>>, pieces |-> <<>>] :
        f \in BuildFields, o \in BuildOperations, v \in BuildValues}
    \cup
    {[fn |-> "parse_filter_expression", op |-> "", arg |-> NullV, field |-> f, marker |-> <<":">>, value |-> v,
      text |-> f \o <<":">> \o v, pieces |-> <<>>] : f \in IdFields, v \in UriValues}
    \cup
    {[fn |-> "parse_filter_param", op |-> "", arg |-> NullV, field |-> f, marker |-> <<":">>, value |-> v,
      text |-> f \o <<":">> \o v, pieces |-> <<f \o <<":">> \o v>>] :
        f \in IdFields, v \in UriValues}
    \cup
    {[fn |-> "parse_filter_value", op |-> "", arg |-> NullV, field |-> f, marker |-> <<>>, value |-> v,
      text |-> <<>>, pieces |-> <<>>] : f \in FilterFields, v \in RawValues}
    \cup
    {[fn |-> "parse_filter_value", op |-> "", arg |-> NullV, field |-> f, marker |-> <<>>, value |-> v,
      text |-> <<>>, pieces |-> <<>>] : f \in CoercionFields, v \in CoercionValues}
    \cup
    {[fn |-> "parse_filter_expression", op |-> "", arg |-> NullV, field |-> f, marker |-> m, value |-> v,
      text |-> f \o m \o v, pieces |-> <<>>] :
        f \in FilterFields, m \in PlainMarkers \cup WireMarkers, v \in RawValues}
    \cup
    {[fn |-> "parse_filter_expression", op |-> "", arg |-> NullV, field |-> <<>>, marker |-> <<>>, value |-> <<>>,
      text |-> t, pieces |-> <<>>] : t \in {<<"junk">>, <<>>}}
    \cup
    {[fn |-> "parse_filter_param", op |-> "", arg |-> NullV, field |-> <<>>, marker |-> <<>>, value |-> <<>>,
      text |-> Join(ps, <<",">>), pieces |-> ps] : ps \in PieceSeqs(MaxExprs)}

InitFilter ==
    /\ pc = "ready"
    /\ inp \in FilterInputs
    /\ self = NoValue
    /\ ret = NoValue
    /\ query = NoValue
    /\ resp = NoValue
    /\ calls = <<>>
    /\ fault = "none"

\* parse_filter_value(field, value)
ParseFilterValue ==
    /\ pc = "ready" /\ inp.fn = "parse_filter_value"
    /\ ret' = parse_filter_value(inp.field, inp.value)
    /\ pc' = "done"
    /\ UNCHANGED <<self, inp, query, resp, calls, fault>>

\* field, operation, value = parse_filter_expression(expr)
ParseFilterExpression ==
    /\ pc = "ready" /\ inp.fn = "parse_filter_expression"
    /\ ret' = parse_filter_expression(inp.text)
    /\ pc' = "parsed"
    /\ UNCHANGED <<self, inp, query, resp, calls, fault>>

\* expr_query = build_mongodb_query(field, operation, value)
BuildMongodbQuery ==
    /\ pc = "parsed" /\ ret.op # ""
    /\ query' = build_mongodb_query(ret.field, ret.op, ret.value)
    /\ pc' = "built"
    /\ UNCHANGED <<self, inp, ret, resp, calls, fault>>

\* build_mongodb_query(field, operation, value), called with a coerced value
CallBuildMongodbQuery ==
    /\ pc = "ready" /\ inp.fn = "build_mongodb_query"
    /\ query' = build_mongodb_query(inp.field, inp.op, inp.arg)
    /\ pc' = "built"
    /\ UNCHANGED <<self, inp, ret, resp, calls, fault>>

\* parse_filter_param(filter_param)
ParseFilterParam ==
    /\ pc = "ready" /\ inp.fn = "parse_filter_param"
    /\ ret' = parse_filter_param(inp.text)
    /\ pc' = "done"
    /\ UNCHANGED <<self, inp, query, resp, calls, fault>>

NextFilter ==
    \/ ParseFilterValue
    \/ ParseFilterExpression
    \/ BuildMongodbQuery
    \/ CallBuildMongodbQuery
    \/ ParseFilterParam

SpecFilter == InitFilter /\ [][NextFilter]_vars

(***************************************************************************)
(* Claims about the filter functions (checked under SpecFilter)            *)
(***************************************************************************)
\* the operator FILTER_OPERATIONS gives a marker
OperatorOf(m) ==
    FILTER_OPERATIONS[CHOOSE i \in 1..Len(FILTER_OPERATIONS) :
                          FILTER_OPERATIONS[i].marker = m].name

\* the marker of an operator
MarkerOf(name) ==
    FILTER_OPERATIONS[CHOOSE i \in 1..Len(FILTER_OPERATIONS) :
                          FILTER_OPERATIONS[i].name = name].marker

ExprParsed == pc \in {"parsed", "built"} /\ inp.fn = "parse_filter_expression"

\* C1: for a numeric field f, a comparison marker m and an integer n, the wire
\* form f:<m><n> is parsed to (f, operator of m, the integer n).
C1_WireComparisonParsed ==
    \A n \in Numbers :
        ( /\ ExprParsed
          /\ inp.field \in FILTER_TYPE_MAPPING
          /\ inp.marker \in WireMarkers
          /\ inp.value = IntToStr(n) )
        => ret = [field |-> inp.field, op |-> OperatorOf(Tail(inp.marker)),
                  value |-> IntV(n)]

\* the characters the operator markers are made of
MarkerChars == {":", ">", "<", "=", "!"}

\* C2: each of the eight markers selects its own operator: f<marker>v is parsed
\* to field f, the operator of the marker, and the value of the raw text v
\* (stated here for the raw values that hold no marker character themselves).
C2_MarkerSelectsOperator ==
    ( /\ ExprParsed
      /\ inp.marker \in PlainMarkers
      /\ \A i \in 1..Len(inp.value) : inp.value[i] \notin MarkerChars )
    => ret = [field |-> inp.field, op |-> OperatorOf(inp.marker),
              value |-> ExprValue(inp.field, inp.value)]

ParamReturned ==
    pc = "done" /\ inp.fn = "parse_filter_param" /\ ~ret.raised

\* the expressions of the filter string the loop does not discard
KeptExprs(text) ==
    LET exprs == Split(text, <<",">>)
    IN  SelectSeq(exprs, LAMBDA e : ~Discarded(e))

\* the predicate fragment built for each kept expression (a one-entry dict)
Fragments(text) ==
    LET kept == KeptExprs(text)
    IN  [i \in 1..Len(kept) |->
            LET p == parse_filter_expression(Strip(kept[i]))
            IN  build_mongodb_query(p.field, p.op, p.value).val]

Count(seq, x) == Cardinality({i \in 1..Len(seq) : seq[i] = x})

RECURSIVE Concat(_)
Concat(ss) == IF ss = <<>> THEN <<>> ELSE Head(ss) \o Concat(Tail(ss))

\* the result is {"$and": [...]}
TopAnd(d) == Len(d) = 1 /\ d[1].key = <<"$and">>

\* the conditions of a result: its entries, or the entries of the members of
\* its $and list
Conditions(d) == IF TopAnd(d) THEN Concat(d[1].cond.l) ELSE d

C4_ParamNeverRaises ==
    (pc = "done" /\ inp.fn = "parse_filter_param") => ~ret.raised

\* C5: the value null or none, in any letter case, is coerced to None for every
\* field name.
C5_NullOverridesCoercion ==
    ( /\ pc = "done" /\ inp.fn = "parse_filter_value"
      /\ Lower(inp.value) \in {<<"null">>, <<"none">>} )
    => ret = NullV

\* the decoded text after the marker the parser split at
DecodedValue ==
    unquote(Replace(SubSeq(inp.text, Len(ret.field) + Len(MarkerOf(ret.op)) + 1,
                           Len(inp.text)),
                    <<"+">>, <<" ">>))

\* the $or node with one branch per token, branch i built from token i as
\* coerce(token i); raised when a branch raises
OrOfTokens(coerce(_)) ==
    LET toks == Split(DecodedValue, <<"|">>)
        branch == [i \in 1..Len(toks) |->
                      build_mongodb_query(ret.field, ret.op, coerce(toks[i]))]
    IN  IF \E i \in 1..Len(toks) : branch[i].raised
        THEN Raise
        ELSE Return(<<Entry(<<"$or">>, CList([i \in 1..Len(toks) |-> branch[i].val]))>>)

\* C10 as stated: for a decoded value containing "|", the predicate is an $or
\* node with one branch per token, in order, branch i being the predicate for
\* token i coerced on its own by parse_filter_value.
C10_OrBranchPerToken ==
    ( /\ pc = "built" /\ inp.fn = "parse_filter_expression"
      /\ Contains(DecodedValue, <<"|">>) )
    => query = OrOfTokens(LAMBDA t : parse_filter_value(ret.field, t))

\* C10 as amended: branch i is the predicate for token i stripped of its
\* surrounding whitespace and then coerced on its own.
C10_OrBranchPerStrippedToken ==
    ( /\ pc = "built" /\ inp.fn = "parse_filter_expression"
      /\ Contains(DecodedValue, <<"|">>) )
    => query = OrOfTokens(LAMBDA t : parse_filter_value(ret.field, Strip(t)))

\* C10 witness: an $or node was built from tokens that carry whitespace
C10_Witness ==
    /\ pc = "built" /\ inp.fn = "parse_filter_expression"
    /\ Contains(DecodedValue, <<"|">>)
    /\ \E i \in 1..Len(Split(DecodedValue, <<"|">>)) :
           Strip(Split(DecodedValue, <<"|">>)[i]) # Split(DecodedValue, <<"|">>)[i]
    /\ ~query.raised
    /\ Len(query.val[1].cond.l) = 2

(***************************************************************************)
(* The document store (MongoDB through motor), as the handlers use it.     *)
(* A document is a function from field paths to values; the documents of   *)
(* the model are flat and hold no arrays.                                  *)
(***************************************************************************)
DocTitle(i) ==
    CASE i % 3 = 1 -> <<"neural", " ", "networks">>
      [] i % 3 = 2 -> <<"Neural", " ", "neural">>
      [] OTHER -> <<"learning">>

ShortId(i) == <<"W">> \o NatToStr(i)

\* the i-th document of the collection
Doc(i) ==
    (<<"_id">> :> StrV(ShortId(i)))
    @@ (<<"id">> :> StrV(<<"https", ":", "/", "/", "openalex", ".", "org", "/">> \o ShortId(i)))
    @@ (<<"title">> :> StrV(DocTitle(i)))
    @@ (<<"display_name">> :> StrV(DocTitle(i)))
    @@ (<<"search_blob">> :> StrV(DocTitle(i)))
    @@ (<<"publication_year">> :> IntV(2018 + (i % 2)))
    @@ (<<"type">> :> StrV(IF (i \div 2) % 2 = 0 THEN <<"book">> ELSE <<"article">>))
    @@ (<<"cited_by_count">> :> IntV((2 * i) % 3))
    @@ (<<"works_count">> :> IntV(i % 2))

\* a collection of n documents, in the store's natural order
Collection(n) == [i \in 1..n |-> Doc(i)]

\* {"$text": {"$search": q}}
CText(q) == [c |-> "text", op |-> "", sub |-> <<>>, v |-> StrV(q), l |-> <<>>]

\* the text score of a document: the occurrences of the search term in its
\* indexed text
TextScore(doc, q) ==
    LET text == Lower(doc[<<"title">>].s)
    IN  Cardinality({i \in 1..Len(text) : OccursAt(text, Lower(q), i)})

\* the characters of the documents' _id, and their order by code point: the
\* digits before "W"
IdChars == Digits \cup {"W"}

CharRank(c) == IF c \in Digits THEN DigitVal(c) ELSE 10

\* the store's order of two strings: by code point, a proper prefix first
RECURSIVE StrLess(_, _)
StrLess(s, t) ==
    IF t = <<>> THEN FALSE
    ELSE IF s = <<>> THEN TRUE
    ELSE IF Head(s) = Head(t) THEN StrLess(Tail(s), Tail(t))
    ELSE CharRank(Head(s)) < CharRank(Head(t))

\* the order of two values of the same type; of the strings, those of id
\* characters are ordered (the only strings the model's requests compare)
ValueLess(a, b) ==
    /\ a.k = b.k
    /\ \/ a.k \in {"int", "bool"} /\ a.n < b.n
       \/ /\ a.k = "str"
          /\ \A i \in 1..Len(a.s) : a.s[i] \in IdChars
          /\ \A i \in 1..Len(b.s) : b.s[i] \in IdChars
          /\ StrLess(a.s, b.s)

\* whether a document satisfies one condition on a key
MatchLeaf(doc, key, cond) ==
    LET has == key \in DOMAIN doc
        isnull == ~has \/ doc[key].k = "null"
        eq == IF cond.v.k = "null" THEN isnull ELSE has /\ doc[key] = cond.v
    IN  CASE cond.c = "val" -> eq
          [] cond.c = "op" ->
               (CASE cond.op = "$eq" -> eq
                  [] cond.op = "$ne" -> ~eq
                  [] cond.op = "$gt" -> has /\ ValueLess(cond.v, doc[key])
                  [] cond.op = "$lt" -> has /\ ValueLess(doc[key], cond.v)
                  [] cond.op = "$gte" -> has /\ (ValueLess(cond.v, doc[key]) \/ doc[key] = cond.v)
                  [] cond.op = "$lte" -> has /\ (ValueLess(doc[key], cond.v) \/ doc[key] = cond.v))
          [] cond.c = "regex" ->
                /\ has /\ doc[key].k = "str" /\ cond.v.k = "str"
                /\ (cond.v.s = <<>> \/ Contains(Lower(doc[key].s), Lower(cond.v.s)))
          [] cond.c = "exists" -> has = (cond.v.k \in {"bool", "int"} /\ cond.v.n # 0)
          [] cond.c = "exists_ne" -> has = (cond.v.k \in {"bool", "int"} /\ cond.v.n # 0)
          [] cond.c = "elem" -> FALSE
          [] cond.c = "text" -> TextScore(doc, cond.v.s) > 0

\* whether a document satisfies a query: every entry, with $or and $and over
\* their lists
RECURSIVE Matches(_, _)
Matches(doc, d) ==
    \A i \in 1..Len(d) :
        IF d[i].cond.c = "list"
        THEN IF d[i].key = <<"$or">>
             THEN \E m \in 1..Len(d[i].cond.l) : Matches(doc, d[i].cond.l[m])
             ELSE \A m \in 1..Len(d[i].cond.l) : Matches(doc, d[i].cond.l[m])
        ELSE MatchLeaf(doc, d[i].key, d[i].cond)

\* sort directions; a relevance sort carries the str "textScore" in the place of
\* the direction
ASCENDING == 1
DESCENDING == -1
TEXT_SCORE == 0

\* the sort key of a document for one sort entry
SortKey(doc, spec, q) ==
    IF spec.dir = TEXT_SCORE THEN 0 - TextScore(doc, q)
    ELSE IF spec.field \in DOMAIN doc /\ doc[spec.field].k \in {"int", "bool"}
    THEN spec.dir * doc[spec.field].n
    ELSE 0

\* whether document a sorts strictly before document b
RECURSIVE SortsBefore(_, _, _, _)
SortsBefore(a, b, sort, q) ==
    IF sort = <<>> THEN FALSE
    ELSE IF SortKey(a, Head(sort), q) # SortKey(b, Head(sort), q)
    THEN SortKey(a, Head(sort), q) < SortKey(b, Head(sort), q)
    ELSE SortsBefore(a, b, Tail(sort), q)

\* cursor.sort(sort): a stable sort, ties in natural order
RECURSIVE SortDocs(_, _, _)
SortDocs(docs, sort, q) ==
    IF docs = <<>> THEN <<>>
    ELSE LET rest == SortDocs(Tail(docs), sort, q)
             d == Head(docs)
             before == {i \in 1..Len(rest) : SortsBefore(rest[i], d, sort, q)}
             k == IF before = {} THEN 0 ELSE CHOOSE i \in before : \A j \in before : i >= j
         IN  SubSeq(rest, 1, k) \o <<d>> \o SubSeq(rest, k + 1, Len(rest))

\* a projection: the fields to keep (none: the whole document) and whether the
\* text score is added as "score"
Projection(fields, score) == [fields |-> fields, score |-> score]

Project(doc, projection, q) ==
    LET keep == IF projection.fields = {} /\ ~projection.score
                THEN DOMAIN doc
                ELSE DOMAIN doc \cap (projection.fields \cup {<<"_id">>})
        kept == [k \in keep |-> doc[k]]
    IN  IF projection.score
        THEN kept @@ (<<"score">> :> IntV(TextScore(doc, q)))
        ELSE kept

\* the documents of the collection that satisfy the query, sorted
SortedMatches(coll, q, sort, text) ==
    SortDocs(SelectSeq(coll, LAMBDA d : Matches(d, q)), sort, text)

\* await collection.find(q, projection).sort(sort).skip(skip).limit(limit).to_list()
ExecFind(coll, c) ==
    LET all == SortedMatches(coll, c.query, c.sort, c.text)
        page == SubSeq(all, c.skip + 1,
                       IF c.skip + c.limit < Len(all) THEN c.skip + c.limit ELSE Len(all))
    IN  [i \in 1..Len(page) |-> Project(page[i], c.projection, c.text)]

\* await collection.count_documents(q)
CountDocuments(coll, q) == Len(SelectSeq(coll, LAMBDA d : Matches(d, q)))

(***************************************************************************)
(* filter_utils.py: parse_sort_param, parse_select_param                   *)
(***************************************************************************)
SortSpec(field, dir) == [field |-> field, dir |-> dir]

\* DEFAULT_SORT_FIELDS.get(entity_type, "works_count")
DEFAULT_SORT_FIELDS(entity_type) ==
    IF entity_type = "works" THEN <<"cited_by_count">> ELSE <<"works_count">>

\* SORT_DIRECTIONS.get(direction, -1)
SORT_DIRECTIONS(direction) ==
    IF direction = <<"asc">> THEN ASCENDING ELSE DESCENDING

\* a variant of ParseSortSpec that compares the direction as it is written
ParseSortSpecCaseSensitive(sort_spec) ==
    LET parts == SplitOnce(sort_spec, <<":">>)
        field == IF Contains(sort_spec, <<":">>) THEN parts[1] ELSE sort_spec
        mongo_direction == IF Contains(sort_spec, <<":">>)
                           THEN SORT_DIRECTIONS(parts[2])
                           ELSE DESCENDING
    IN  IF field = <<"relevance_score">>
        THEN SortSpec(<<"score">>, TEXT_SCORE)
        ELSE SortSpec(field, mongo_direction)

\* one comma-separated piece of the sort parameter
ParseSortSpec(sort_spec) ==
    LET parts == SplitOnce(sort_spec, <<":">>)
        field == IF Contains(sort_spec, <<":">>) THEN parts[1] ELSE sort_spec
        mongo_direction == IF Contains(sort_spec, <<":">>)
                           THEN SORT_DIRECTIONS(Lower(parts[2]))
                           ELSE DESCENDING
    IN  IF field = <<"relevance_score">>
        THEN SortSpec(<<"score">>, TEXT_SCORE)
        ELSE SortSpec(field, mongo_direction)

parse_sort_param(sort_param, entity_type) ==
    IF sort_param = <<>>
    THEN <<SortSpec(DEFAULT_SORT_FIELDS(entity_type), DESCENDING)>>
    ELSE LET specs == Split(sort_param, <<",">>)
         IN  [i \in 1..Len(specs) |-> ParseSortSpec(specs[i])]

\* the keys of the projection dict (every one maps to 1)
parse_select_param(select_param) ==
    IF select_param = <<>> THEN {}
    ELSE LET fs == Split(select_param, <<",">>)
         IN  {Strip(fs[i]) : i \in {j \in 1..Len(fs) : Strip(fs[j]) # <<>>}} \cup {<<"_id">>}

(***************************************************************************)
(* handlers.py: BaseEntityHandler.list_entities, and the list route of     *)
(* entity_router.py that calls it                                          *)
(***************************************************************************)
\* the route's extra_filters, from the attributes of WorksFilterParams
\* (title, year, type) that are not None
RouterExtraFilters(r) ==
    (IF r.title # <<>> THEN <<Entry(<<"title">>, CRegex(StrV(r.title)))>> ELSE <<>>)
    \o (IF r.year # 0 THEN <<Entry(<<"publication_year">>, CVal(IntV(r.year)))>> ELSE <<>>)
    \o (IF r.type # <<>> THEN <<Entry(<<"type">>, CVal(StrV(r.type)))>> ELSE <<>>)

\* the arguments the handler is called with: through the route the
\* pre-filters arrive as extra_filters, a direct call passes them by name
HandlerArgs(r) ==
    IF r.via = "router"
    THEN [name |-> <<>>, title |-> <<>>, year |-> 0, type |-> <<>>,
          extra_filters |-> RouterExtraFilters(r), sort_field |-> <<"cited_by_count">>]
    ELSE [name |-> r.name, title |-> r.title, year |-> r.year, type |-> r.type,
          extra_filters |-> <<>>, sort_field |-> <<"works_count">>]

\* the query before the filter string: query[name_field], query["title"],
\* query["publication_year"], query["type"]
NamedFilters(a, entity_name) ==
    LET name_field == IF entity_name = "work" THEN <<"title">> ELSE <<"display_name">>
        q1 == IF a.name # <<>> THEN <<Entry(name_field, CRegex(StrV(a.name)))>> ELSE <<>>
        q2 == IF a.title # <<>>
              THEN DictUpdate(q1, <<Entry(<<"title">>, CRegex(StrV(a.title)))>>) ELSE q1
        q3 == IF a.year # 0
              THEN DictUpdate(q2, <<Entry(<<"publication_year">>, CVal(IntV(a.year)))>>) ELSE q2
    IN  IF a.type # <<>>
        THEN DictUpdate(q3, <<Entry(<<"type">>, CVal(StrV(a.type)))>>) ELSE q3

\* query.update(filter_query) and query.update(extra_filters), for the
\* outcome fq of parsing the filter string
UpdateQuery(named, fq, extra_filters) ==
    IF fq.raised THEN Raise
    ELSE Return(DictUpdate(DictUpdate(named, fq.val), extra_filters))

\* the outcome of parsing a filter parameter that may be absent
ParsedFilter(filter_param) ==
    IF filter_param # <<>> THEN parse_filter_param(filter_param) ELSE Return(<<>>)

\* the query of list_entities: the named filters, updated with the parsed
\* filter string, updated with extra_filters
ListQuery(a, entity_name, filter_param) ==
    UpdateQuery(NamedFilters(a, entity_name), ParsedFilter(filter_param), a.extra_filters)

\* a variant of ListSort that hands every parsed pair to the store
ListSortUnfiltered(sort_param, entity_name, sort_field) ==
    parse_sort_param(sort_param, entity_name)

\* the sort list of list_entities
ListSort(sort_param, entity_name, sort_field) ==
    LET sort_specs == parse_sort_param(sort_param, entity_name)
        sort_list == SelectSeq(sort_specs,
                        LAMBDA sp : ~(sp.field = <<"score">> /\ sp.dir = TEXT_SCORE)
                                    /\ sp.field # <<"relevance_score">>)
    IN  IF sort_list = <<>> THEN <<SortSpec(sort_field, DESCENDING)>> ELSE sort_list

\* a variant of TotalPages that rounds down
TotalPagesFloor(total_count, per_page) == total_count \div per_page

\* (total_count + per_page - 1) // per_page
TotalPages(total_count, per_page) == (total_count + per_page - 1) \div per_page

\* a cursor: collection.find(query, projection) with its sort, skip and limit
Cursor(q, projection, sort, text, skip, limit) ==
    [op |-> "find", query |-> q, projection |-> projection, sort |-> sort,
     text |-> text, skip |-> skip, limit |-> limit]

Response(status, body) == [status |-> status, body |-> body]

(***************************************************************************)
(* handlers.py: BaseEntityHandler.search_entities and the override of      *)
(* WorksHandler                                                            *)
(***************************************************************************)
\* search_query: the text search, under $and with the filter when there is one
SearchQuery(q, filter_query) ==
    IF filter_query # <<>>
    THEN <<Entry(<<"$and">>, CList(<<<<Entry(<<"$text">>, CText(q))>>, filter_query>>))>>
    ELSE <<Entry(<<"$text">>, CText(q))>>

\* the projection: the handler's default, or the select parameter with the score
SearchProjection(handler, explain_score, select_param) ==
    IF select_param # <<>>
    THEN Projection(parse_select_param(select_param) \cup {<<"score">>}, TRUE)
    ELSE IF handler = "works"
    THEN Projection({<<"title">>, <<"publication_year">>, <<"authorships">>, <<"type">>,
                     <<"_citation_key">>}
                    \cup (IF explain_score THEN {<<"search_blob">>} ELSE {}), TRUE)
    ELSE Projection({<<"display_name">>, <<"works_count">>}, TRUE)

\* the ordering of the cursor: each cursor.sort() call replaces the ordering
\* of the one before it
SearchSort(sort_param, entity_name) ==
    LET sort_specs == IF sort_param # <<>> THEN parse_sort_param(sort_param, entity_name)
                      ELSE <<>>
        by_score == <<SortSpec(<<"score">>, TEXT_SCORE)>>
    IN  IF sort_param = <<>> \/ Contains(sort_param, <<"relevance_score">>)
        THEN LET more == SelectSeq(sort_specs,
                            LAMBDA sp : sp.field # <<"score">>
                                        /\ sp.field # <<"relevance_score">>
                                        /\ sp.dir # TEXT_SCORE)
             IN  IF more = <<>> THEN by_score ELSE <<more[Len(more)]>>
        ELSE LET sort_list == SelectSeq(sort_specs, LAMBDA sp : sp.dir # TEXT_SCORE)
             IN  IF sort_list = <<>> THEN by_score ELSE sort_list

\* a variant of FetchLimit that fetches exactly limit documents
FetchLimitExact(limit) == limit

\* the limit of the fetch: one more document than requested
FetchLimit(limit) == limit + 1

\* doc["_score_explanation"] of the base handler, and what WorksHandler adds
\* to it (nested keys are written as paths)
Explain(doc, q, handler) ==
    LET score == IF <<"score">> \in DOMAIN doc THEN doc[<<"score">>] ELSE IntV(0)
        base == (<<"_score_explanation", ".", "score">> :> score)
                @@ (<<"_score_explanation", ".", "query">> :> StrV(q))
                @@ doc
        search_blob == IF <<"search_blob">> \in DOMAIN doc
                       THEN Lower(doc[<<"search_blob">>].s) ELSE <<>>
        terms == Split(q, <<" ">>)
        matches == SelectSeq([i \in 1..Len(terms) |-> StrV(Lower(terms[i]))],
                             LAMBDA t : Contains(search_blob, t.s))
        kept == [k \in DOMAIN base \ {<<"search_blob">>} |-> base[k]]
    IN  IF handler = "works"
        THEN (<<"_score_explanation", ".", "matching_terms">> :> ListV(matches))
             @@ (<<"_score_explanation", ".", "search_blob">> :> StrV(search_blob))
             @@ kept
        ELSE base

\* the dict returned when the fetch fails or finds nothing
EmptyResult(skip, limit, message) ==
    [total |-> 0, skip |-> skip, limit |-> limit, results |-> <<>>, message |-> message]

\* the dict returned for the fetched documents
SearchResult(documents, r) ==
    IF documents = <<>>
    THEN EmptyResult(r.skip, r.limit, "No matching found")
    ELSE LET has_more == Len(documents) > r.limit
             docs == IF has_more THEN SubSeq(documents, 1, r.limit) ELSE documents
         IN  [skip |-> r.skip, limit |-> r.limit, has_more |-> has_more,
              results |-> IF r.explain_score
                          THEN [i \in 1..Len(docs) |-> Explain(docs[i], r.q, r.handler)]
                          ELSE docs]

\* raise HTTPException(status_code=status)
RaiseHTTP(status) == [raised |-> TRUE, val |-> status]

(***************************************************************************)
(* es_handler.py: ESHandler.search, over the index that                    *)
(* index_to_elasticsearch.py fills                                         *)
(***************************************************************************)
\* the simplified document indexed for a document of a collection
SimpleDoc(doc, collection_name) ==
    (<<"id">> :> doc[<<"id">>])
    @@ (<<"display_name">> :> IF collection_name = "works" THEN doc[<<"search_blob">>]
                              ELSE doc[<<"display_name">>])

\* the _source of a hit: the indexed form of the document with that number
HitSource(hit) == SimpleDoc(Doc(hit.doc), "works")

\* the dict returned for the hits of the search backend, given in rank order
EsResult(hits, total, r) ==
    [results |-> [i \in 1..Len(hits) |-> HitSource(hits[i])],
     total |-> total,
     page |-> (r.skip \div r.limit) + 1,
     per_page |-> r.limit,
     scores |-> [i \in 1..Len(hits) |-> hits[i].score]]

(***************************************************************************)
(* handlers.py: BaseEntityHandler.get_entity                               *)
(***************************************************************************)
LongId(i) == <<"https", ":", "/", "/", "openalex", ".", "org", "/">> \o ShortId(i)

\* a collection in which the document k (if any) carries as its `id` the
\* `_id` of the first document
AliasedCollection(n, k) ==
    [i \in 1..n |-> IF i = k THEN [Doc(i) EXCEPT ![<<"id">>] = StrV(ShortId(1))] ELSE Doc(i)]

\* await collection.find_one(q, projection): the first document that
\* satisfies q, or None
FindOne(coll, q, projection) ==
    LET hits == {i \in 1..Len(coll) : Matches(coll[i], q)}
    IN  IF hits = {} THEN NoValue
        ELSE Project(coll[CHOOSE i \in hits : \A j \in hits : i <= j], projection, <<>>)

\* a variant of FirstLookup that looks the id up in the `id` field
FirstLookupById(entity_id) == <<Entry(<<"id">>, CVal(StrV(entity_id)))>>

\* {"_id": entity_id}
FirstLookup(entity_id) == <<Entry(<<"_id">>, CVal(StrV(entity_id)))>>

\* {"id": entity_id}
SecondLookup(entity_id) == <<Entry(<<"id">>, CVal(StrV(entity_id)))>>

\* raise HTTPException(status_code=404, detail=f"{self.entity_name} not found")
NotFound(entity_name) ==
    [raised |-> TRUE, val |-> 404, detail |-> <<entity_name, " ", "not", " ", "found">>]

(***************************************************************************)
(* filter_utils.py: parse_group_by_param; handlers.py:                     *)
(* BaseEntityHandler.group_entities; the aggregation of the store          *)
(***************************************************************************)
\* a pipeline stage: $match with a query, $group with a field, $project of
\* key and count, $sort with the direction of count
Stage(name, field, q, dir) == [stage |-> name, field |-> field, query |-> q, dir |-> dir]

\* the pipeline of a field; nothing for no field
parse_group_by_param(group_by_param) ==
    IF group_by_param = <<>> THEN <<>>
    ELSE << Stage("$group", Strip(group_by_param), <<>>, 0),
            Stage("$project", <<>>, <<>>, 0),
            Stage("$sort", <<"count">>, <<>>, DESCENDING) >>

\* the query of group_entities: the parsed filter string, updated with
\* extra_filters
GroupQuery(filter_param, extra_filters) ==
    UpdateQuery(<<>>, ParsedFilter(filter_param), extra_filters)

\* a variant of GroupPipeline without the match stage
GroupPipelineUnmatched(group_by, q) ==
    parse_group_by_param(group_by)

\* the pipeline of group_entities: the match stage is inserted at the front
\* when the query is not empty
GroupPipeline(group_by, q) ==
    LET pipeline == parse_group_by_param(group_by)
    IN  IF q # <<>> THEN <<Stage("$match", <<>>, q, 0)>> \o pipeline ELSE pipeline

\* the value of a field of a document; null for a field it does not have
FieldValue(doc, field) == IF field \in DOMAIN doc THEN doc[field] ELSE NullV

\* the orders of the elements of a set
RECURSIVE Orders(_)
Orders(S) ==
    IF S = {} THEN {<<>>}
    ELSE UNION {{<<x>> \o o : o \in Orders(S \ {x})} : x \in S}

\* the documents $group makes of the documents docs: one for each value of the
\* field, with the number of documents that have it, in no defined order
GroupStage(docs, field) ==
    LET values == {FieldValue(docs[i], field) : i \in 1..Len(docs)}
        row(v) == (<<"_id">> :> v)
                  @@ (<<"count">> :> IntV(Cardinality({i \in 1..Len(docs) :
                                               FieldValue(docs[i], field) = v})))
                  @@ (<<"key">> :> v)
    IN  Orders({row(v) : v \in values})

\* {"_id": 0, "key": 1, "count": 1}
ProjectStage(docs) ==
    [i \in 1..Len(docs) |->
        (<<"key">> :> docs[i][<<"key">>]) @@ (<<"count">> :> docs[i][<<"count">>])]

\* the outcomes of a pipeline over the documents docs
RECURSIVE Aggregate(_, _)
Aggregate(docs, pipeline) ==
    IF pipeline = <<>> THEN {docs}
    ELSE LET st == Head(pipeline)
             next == CASE st.stage = "$match" ->
                            {SelectSeq(docs, LAMBDA d : Matches(d, st.query))}
                       [] st.stage = "$group" -> GroupStage(docs, st.field)
                       [] st.stage = "$project" -> {ProjectStage(docs)}
                       [] st.stage = "$sort" ->
                            {SortDocs(docs, <<SortSpec(st.field, st.dir)>>, <<>>)}
         IN  UNION {Aggregate(d, Tail(pipeline)) : d \in next}

\* the dict group_entities returns
GroupResult(results, group_by) ==
    [meta |-> [count |-> Len(results), group_by |-> group_by],
     group_by |-> [i \in 1..Len(results) |->
                      [key |-> results[i][<<"key">>], count |-> results[i][<<"count">>]]]]

(***************************************************************************)
(* The endpoints as a machine: a request is drawn, then the route and the  *)
(* handler run step by step, each await of the store being one step.       *)
(* inp: the request and the size of the collection; query: the filter      *)
(* query of the request; ret: the cursor, then the handler's outcome;      *)
(* calls: the operations awaited on the store and the search backend;      *)
(* fault: where the store has failed; resp: the response.                  *)
(***************************************************************************)
FilterParams ==
    { <<>>,
      <<"type", ":", "book">>,
      <<"publication_year", ":", "2", "0", "1", "9">>,
      <<"type", ":", "book", "|", "article", ",", "publication_year", ":", "2", "0", "1", "9">>,
      <<"language", ">", "en", "|", "null">> }

\* pairs of a sort and a select parameter
SortSelectParams ==
    { <<<<>>, <<>>>>,
      <<<<"publication_year", ":", "asc">>, <<>>>>,
      <<<<"relevance_score", ":", "DESC", ",", "cited_by_count">>,
        <<"id", ",", " ", "title">>>> }

\* the ranked hits of the search backend within a collection of n documents:
\* at most limit distinct documents, with descending scores
EsHits(n, limit) ==
    LET ids == UNION {[1..k -> 1..n] : k \in 0..limit}
        distinct == {h \in ids : \A i, j \in 1..Len(h) : i # j => h[i] # h[j]}
    IN  {[p \in 1..Len(h) |-> [doc |-> h[p], score |-> Len(h) - p + 1]] : h \in distinct}

Request ==
    [fn |-> "", via |-> "router", entity_name |-> "work", handler |-> "works",
     q |-> <<>>, skip |-> 0, limit |-> 1, explain_score |-> FALSE,
     page |-> 1, per_page |-> 1, name |-> <<>>, title |-> <<>>, year |-> 0, type |-> <<>>,
     filter |-> <<>>, sort |-> <<>>, select |-> <<>>,
     es |-> FALSE, es_hits |-> <<>>, ndocs |-> 0,
     entity_id |-> <<>>, alias |-> 0, group_by |-> <<>>]

ListRequests ==
    { [Request EXCEPT !.fn = "list", !.via = via, !.name = name, !.title = title,
                      !.year = year, !.type = type, !.filter = f,
                      !.sort = ss[1], !.select = ss[2],
                      !.page = page, !.per_page = per_page, !.ndocs = n] :
        via \in {"router", "handler"},
        name \in {<<>>, <<"networks">>}, title \in {<<>>, <<"neural">>},
        year \in {0, 2018}, type \in {<<>>, <<"book">>},
        f \in FilterParams, ss \in SortSelectParams,
        page \in 1..MaxPage, per_page \in 1..MaxPerPage, n \in 0..MaxDocs }

SearchRequests ==
    { [Request EXCEPT !.fn = "search", !.q = <<"neural">>, !.handler = h,
                      !.explain_score = e, !.skip = skip, !.limit = limit,
                      !.filter = f, !.sort = ss[1], !.select = ss[2], !.ndocs = n] :
        h \in {"base", "works"}, e \in BOOLEAN,
        skip \in 0..MaxSkip, limit \in 1..MaxLimit,
        f \in FilterParams, ss \in SortSelectParams, n \in 0..MaxDocs }

EsSearchRequests ==
    UNION { { [Request EXCEPT !.fn = "search", !.q = <<"neural">>, !.es = TRUE,
                              !.skip = skip, !.limit = limit, !.filter = f,
                              !.es_hits = hits, !.ndocs = n] :
                hits \in EsHits(n, limit) } :
            skip \in 0..MaxSkip, limit \in 1..MaxLimit,
            f \in FilterParams, n \in 0..MaxDocs }

\* sort strings: sentinel tokens only, sentinel tokens among others, letter
\* case, omitted and unrecognized directions, an empty token
SortParams ==
    { <<"relevance_score">>,
      <<"relevance_score", ":", "asc", ",", "relevance_score", ":", "desc">>,
      <<"works_count", ":", "ASC", ",", "relevance_score", ":", "desc", ",",
        "publication_year", ":", "up">>,
      <<"cited_by_count", ",", "publication_year", ":", "Asc">>,
      <<"score", ":", "desc">>,
      <<"publication_year", ":", "asc", ",">> }

\* list requests with these sort strings
SortedListRequests ==
    { [Request EXCEPT !.fn = "list", !.via = via, !.sort = sort,
                      !.per_page = per_page, !.ndocs = n] :
        via \in {"router", "handler"}, sort \in SortParams,
        per_page \in 1..MaxPerPage, n \in 0..MaxDocs }

\* list requests to handlers constructed with other entity names
NamedHandlerListRequests ==
    { [Request EXCEPT !.fn = "list", !.via = "handler", !.entity_name = e,
                      !.sort = ss[1], !.select = ss[2],
                      !.page = page, !.per_page = per_page, !.ndocs = n] :
        e \in {"works", "author", "authors"}, ss \in SortSelectParams,
        page \in 1..MaxPage, per_page \in 1..MaxPerPage, n \in 0..MaxDocs }

\* get requests, without related entities to include: the id of a document,
\* the long id of one, or an id that no document has
GetRequests ==
    { [Request EXCEPT !.fn = "get", !.entity_id = id, !.select = sel,
                      !.ndocs = n, !.alias = k] :
        id \in {ShortId(1), ShortId(2), LongId(2), ShortId(MaxDocs + 1)},
        sel \in {<<>>, <<"title">>},
        n \in 0..MaxDocs, k \in 0..MaxDocs }

\* filter strings of the group requests
GroupFilterParams ==
    FilterParams \cup {<<"cited_by_count", ">", "0">>, <<"type", ":", "report">>}

\* group requests: fields of the documents, one of them written with blanks,
\* and a field no document has
GroupRequests ==
    { [Request EXCEPT !.fn = "group", !.group_by = g, !.filter = f, !.ndocs = n] :
        g \in {<<"type">>, <<"publication_year">>, <<"cited_by_count">>,
               <<" ", "type", " ">>, <<"language">>},
        f \in GroupFilterParams, n \in 0..MaxDocs }

\* through the route a name never arrives (WorksFilterParams has none), and a
\* direct call of the handler is made with a name and no title
ApiInputs ==
    {r \in ListRequests : IF r.via = "router" THEN r.name = <<>> ELSE r.title = <<>>}
    \cup SearchRequests \cup EsSearchRequests
    \cup {r \in GetRequests : r.alias <= r.ndocs}
    \cup NamedHandlerListRequests
    \cup SortedListRequests
    \cup GroupRequests

\* the attributes __init__ gives a handler of a class ("base" for
\* BaseEntityHandler, "works" for WorksHandler): only WorksHandler sets
\* default_sort_field
Handler(class, entity_name) ==
    [class |-> class, entity_name |-> entity_name,
     default_sort_field |-> IF class = "works" THEN <<"cited_by_count">> ELSE <<>>]

InitApi ==
    /\ pc = "ready"
    /\ inp \in ApiInputs
    /\ self = Handler(inp.handler, inp.entity_name)
    /\ ret = NoValue
    /\ query = NoValue
    /\ resp = NoValue
    /\ calls = <<>>
    /\ fault = "none"

\* the list route and the handler up to its first await
ListEntitiesBuild ==
    /\ pc = "ready"
    /\ inp.fn = "list"
    /\ \E q \in {ListQuery(HandlerArgs(inp), inp.entity_name, inp.filter)} :
        IF q.raised
        THEN /\ resp' = Response(500, NoValue)
             /\ pc' = "responded"
             /\ UNCHANGED <<query, ret>>
        ELSE /\ query' = q.val
             /\ ret' = [cursor |-> Cursor(q.val,
                            Projection(parse_select_param(inp.select), FALSE),
                            ListSort(inp.sort, inp.entity_name, HandlerArgs(inp).sort_field),
                            <<>>, (inp.page - 1) * inp.per_page, inp.per_page)]
             /\ pc' = "list_count"
             /\ UNCHANGED resp
    /\ UNCHANGED <<self, inp, calls, fault>>

\* total_count = await self.collection.count_documents(query)
ListEntitiesCount ==
    /\ pc = "list_count"
    /\ calls' = Append(calls, [op |-> "count_documents", query |-> query])
    /\ ret' = [cursor |-> ret.cursor,
               total_count |-> CountDocuments(Collection(inp.ndocs), query)]
    /\ pc' = "list_fetch"
    /\ UNCHANGED <<self, inp, query, resp, fault>>

\* results = await cursor.skip(skip).limit(per_page).to_list(per_page), and
\* the return of the handler and of the route
ListEntitiesFetch ==
    /\ pc = "list_fetch"
    /\ calls' = Append(calls, ret.cursor)
    /\ LET results == ExecFind(Collection(inp.ndocs), ret.cursor)
       IN  resp' = Response(200,
                [meta |-> [count |-> Len(results), total_count |-> ret.total_count,
                           page |-> inp.page, per_page |-> inp.per_page,
                           total_pages |-> TotalPages(ret.total_count, inp.per_page)],
                 results |-> results])
    /\ pc' = "responded"
    /\ UNCHANGED <<self, inp, ret, query, fault>>

\* the search route up to the call of the search backend or of the handler
SearchRoute ==
    /\ pc = "ready"
    /\ inp.fn = "search"
    /\ \E fq \in {ParsedFilter(inp.filter)} :
        IF fq.raised
        THEN /\ resp' = Response(500, NoValue)
             /\ pc' = "responded"
             /\ UNCHANGED query
        ELSE /\ query' = fq.val
             /\ pc' = IF inp.es THEN "es_search" ELSE "search_build"
             /\ UNCHANGED resp
    /\ UNCHANGED <<self, inp, ret, calls, fault>>

\* search_entities up to the fetch: the cursor is built, or building it fails
\* and the handler raises 503
SearchEntitiesBuild ==
    /\ pc = "search_build"
    /\ \E fail \in BOOLEAN :
        IF fail
        THEN /\ fault' = "build"
             /\ ret' = RaiseHTTP(503)
             /\ pc' = "search_done"
        ELSE /\ ret' = [cursor |-> Cursor(SearchQuery(inp.q, query),
                            SearchProjection(inp.handler, inp.explain_score, inp.select),
                            SearchSort(inp.sort, inp.entity_name),
                            inp.q, inp.skip, FetchLimit(inp.limit))]
             /\ pc' = "search_fetch"
             /\ UNCHANGED fault
    /\ UNCHANGED <<self, inp, query, resp, calls>>

\* documents = await cursor.skip(skip).limit(limit + 1).to_list(None), and
\* the rest of the handler
SearchEntitiesFetch ==
    /\ pc = "search_fetch"
    /\ calls' = Append(calls, ret.cursor)
    /\ \E fail \in BOOLEAN :
        IF fail
        THEN /\ fault' = "fetch"
             /\ ret' = Return(EmptyResult(inp.skip, inp.limit, "Search operation timed out"))
        ELSE /\ ret' = Return(SearchResult(ExecFind(Collection(inp.ndocs), ret.cursor), inp))
             /\ UNCHANGED fault
    /\ pc' = "search_done"
    /\ UNCHANGED <<self, inp, query, resp>>

\* the route after the handler: its result is returned, any exception
\* becomes a 500
SearchRouteReturn ==
    /\ pc = "search_done"
    /\ resp' = IF ret.raised THEN Response(500, NoValue) ELSE Response(200, ret.val)
    /\ pc' = "responded"
    /\ UNCHANGED <<self, inp, ret, query, calls, fault>>

\* es_handler.py, ESHandler.search: the body of the request to the search
\* engine; the text query is a query_string under "should", and a filter
\* that is neither None nor empty is added under "filter"
ESHandlerSearchBody(q, skip, limit, filter_query) ==
    LET text == [query_string |->
                    [fields |-> <<"display_name.exact^2", "search_blob.exact">>,
                     query |-> q, default_operator |-> "AND",
                     quote_field_suffix |-> ".exact"]]
        bool == ("should" :> <<text>>)
                @@ (IF filter_query # <<>>
                    THEN ("filter" :> filter_query) ELSE <<>>)
    IN  [query |-> ("bool" :> bool), from |-> skip, size |-> limit,
         sort |-> <<"_score", "cited_by_count">>]

\* elastic_index.py, ESIndex.search: the text query is a simple_query_string
\* (match_all for an empty text), wrapped into bool.must next to bool.filter
\* when a filter that is neither None nor empty is given
ESIndexSearchBody(q, skip, limit, filter_query) ==
    LET query_body == IF q # <<>>
                      THEN ("simple_query_string" :>
                               [query |-> q, fields |-> <<"display_name">>,
                                default_operator |-> "and"])
                      ELSE ("match_all" :> <<>>)
    IN  [query |-> IF filter_query # <<>>
                   THEN ("bool" :> (("must" :> query_body) @@ ("filter" :> filter_query)))
                   ELSE query_body,
         from |-> skip, size |-> limit, sort |-> <<"_score">>]

\* the route with a search backend: ESHandler.search and the return of its
\* result, or a 500 when it raises
EsSearch ==
    /\ pc = "es_search"
    /\ calls' = Append(calls, [op |-> "es.search", query |-> query,
                                body |-> ESHandlerSearchBody(inp.q, inp.skip, inp.limit, query)])
    /\ \E fail \in BOOLEAN :
        IF fail
        THEN /\ fault' = "es"
             /\ resp' = Response(500, NoValue)
        ELSE /\ resp' = Response(200, EsResult(inp.es_hits, Len(inp.es_hits), inp))
             /\ UNCHANGED fault
    /\ pc' = "responded"
    /\ UNCHANGED <<self, inp, ret, query>>

\* the collection a get request runs against
GetCollection == AliasedCollection(inp.ndocs, inp.alias)

\* get_entity up to its first await: the lookup by _id
GetEntityById ==
    /\ pc = "ready"
    /\ inp.fn = "get"
    /\ calls' = Append(calls, [op |-> "find_one", query |-> FirstLookup(inp.entity_id)])
    /\ \E entity \in {FindOne(GetCollection, FirstLookup(inp.entity_id),
                              Projection(parse_select_param(inp.select), FALSE))} :
        IF entity = NoValue
        THEN pc' = "get_alt" /\ UNCHANGED ret
        ELSE pc' = "get_done" /\ ret' = Return(entity)
    /\ UNCHANGED <<self, inp, query, resp, fault>>

\* the lookup by id, and NotFound when it finds nothing
GetEntityByAltId ==
    /\ pc = "get_alt"
    /\ calls' = Append(calls, [op |-> "find_one", query |-> SecondLookup(inp.entity_id)])
    /\ \E entity \in {FindOne(GetCollection, SecondLookup(inp.entity_id),
                              Projection(parse_select_param(inp.select), FALSE))} :
        ret' = IF entity = NoValue THEN NotFound(inp.entity_name) ELSE Return(entity)
    /\ pc' = "get_done"
    /\ UNCHANGED <<self, inp, query, resp, fault>>

\* the get route after the handler, for a request that includes no related
\* entities: the entity is returned, the handler's exception passes through
GetRouteReturn ==
    /\ pc = "get_done"
    /\ resp' = IF ret.raised THEN Response(ret.val, ret.detail) ELSE Response(200, ret.val)
    /\ pc' = "responded"
    /\ UNCHANGED <<self, inp, ret, query, calls, fault>>

\* the group route and group_entities up to its await
GroupEntitiesBuild ==
    /\ pc = "ready"
    /\ inp.fn = "group"
    /\ \E q \in {GroupQuery(inp.filter, <<>>)} :
        IF q.raised
        THEN /\ resp' = Response(500, NoValue)
             /\ pc' = "responded"
             /\ UNCHANGED <<query, ret>>
        ELSE /\ query' = q.val
             /\ ret' = [pipeline |-> GroupPipeline(inp.group_by, q.val)]
             /\ pc' = "group_aggregate"
             /\ UNCHANGED resp
    /\ UNCHANGED <<self, inp, calls, fault>>

\* results = await self.collection.aggregate(pipeline).to_list(length=None),
\* and the return of the handler and of the route
GroupEntitiesAggregate ==
    /\ pc = "group_aggregate"
    /\ calls' = Append(calls, [op |-> "aggregate", pipeline |-> ret.pipeline])
    /\ \E results \in Aggregate(Collection(inp.ndocs), ret.pipeline) :
        resp' = Response(200, GroupResult(results, inp.group_by))
    /\ pc' = "responded"
    /\ UNCHANGED <<self, inp, ret, query, fault>>

NextApi ==
    \/ GroupEntitiesBuild
    \/ GroupEntitiesAggregate
    \/ ListEntitiesBuild
    \/ ListEntitiesCount
    \/ ListEntitiesFetch
    \/ SearchRoute
    \/ SearchEntitiesBuild
    \/ SearchEntitiesFetch
    \/ SearchRouteReturn
    \/ EsSearch
    \/ GetEntityById
    \/ GetEntityByAltId
    \/ GetRouteReturn

SpecApi == InitApi /\ [][NextApi]_vars

(***************************************************************************)
(* Claims about the search and list endpoints.                             *)
(***************************************************************************)
\* C6: whenever the store fails during a search request, while the query is
\* built or while the documents are fetched, the caller of the search
\* endpoint receives the 503 condition, never a 500 and never a successful
\* response with zero results.
C6_StoreFailureIs503 ==
    (pc = "responded" /\ inp.fn = "search" /\ fault \in {"build", "fetch"})
        => resp.status = 503

\* the document of the collection that a returned document was made from
StoredDoc(d) == CHOOSE x \in {Doc(i) : i \in 1..inp.ndocs} : x[<<"_id">>] = d[<<"_id">>]

\* C7: a document is returned by list_entities only if it satisfies every
\* pre-filter (name, title, year, type, extra_filters) and every condition of
\* the filter string, also when a pre-filter and a filter expression
\* constrain the same field.
C7_PreFiltersAndFilterConjoined ==
    (pc = "responded" /\ inp.fn = "list" /\ resp.status = 200)
        => \A i \in 1..Len(resp.body.results) :
            LET d == StoredDoc(resp.body.results[i])
                a == HandlerArgs(inp)
            IN  /\ Matches(d, NamedFilters(a, inp.entity_name))
                /\ Matches(d, a.extra_filters)
                /\ Matches(d, ParsedFilter(inp.filter).val)

\* the documents that match the search of the request, in the cursor's order
SearchMatches ==
    SortedMatches(Collection(inp.ndocs), SearchQuery(inp.q, query),
                  SearchSort(inp.sort, inp.entity_name), inp.q)

\* the number N of documents of the collection that match the search
MatchCount ==
    Cardinality({i \in 1..inp.ndocs : Matches(Doc(i), SearchQuery(inp.q, query))})

Min(a, b) == IF a < b THEN a ELSE b

\* search_entities has returned for a fetch that the store answered
SearchReturned == pc = "search_done" /\ fault = "none" /\ ~ret.raised

\* C8: for limit L >= 1 and skip S over N matching documents with N - S >= 1,
\* search_entities returns exactly min(L, N - S) documents, the first ones
\* after the skip in sort order, has_more is true if and only if N - S > L,
\* and no count query is issued.
C8_HasMoreByOverFetch ==
    (SearchReturned /\ MatchCount - inp.skip >= 1)
        => /\ Len(ret.val.results) = Min(inp.limit, MatchCount - inp.skip)
           /\ \A i \in 1..Len(ret.val.results) :
                ret.val.results[i][<<"_id">>] = SearchMatches[inp.skip + i][<<"_id">>]
           /\ ret.val.has_more = (MatchCount - inp.skip > inp.limit)
           /\ \A i \in 1..Len(calls) : calls[i].op # "count_documents"

\* a search with a skip that returns a full page and reports more
C8_Witness ==
    /\ SearchReturned
    /\ inp.skip >= 1
    /\ MatchCount - inp.skip > inp.limit
    /\ Len(ret.val.results) = inp.limit
    /\ ret.val.has_more

\* C9: with a search backend configured, the search endpoint returns the
\* full documents of the primary store, in exactly the rank order of the
\* ids returned by the search backend.
C9_FullDocumentsInRankOrder ==
    (pc = "responded" /\ inp.fn = "search" /\ inp.es /\ resp.status = 200)
        => resp.body.results = [i \in 1..Len(inp.es_hits) |-> Doc(inp.es_hits[i].doc)]

\* a list request has been answered with a page
ListResponded == pc = "responded" /\ inp.fn = "list" /\ resp.status = 200

\* the documents that match the query of the list request, in the order of
\* the sort the handler builds
ListMatches ==
    SortedMatches(Collection(inp.ndocs), query,
                  ListSort(inp.sort, inp.entity_name, HandlerArgs(inp).sort_field), <<>>)

\* the number N of documents of the collection that match the query
ListMatchCount == Cardinality({i \in 1..inp.ndocs : Matches(Doc(i), query)})

\* ceil(n / d): the least k with k * d >= n
Ceil(n, d) == CHOOSE k \in 0..n : k * d >= n /\ \A j \in 0..n : j * d >= n => k <= j

Max(a, b) == IF a > b THEN a ELSE b

\* C11: for list_entities over N matching documents, meta.total_count = N,
\* meta.total_pages = ceil(N / per_page), the results are the documents at
\* positions (page-1)*per_page onward of the sorted match set, and
\* meta.count = len(results) = min(per_page, max(0, N - (page-1)*per_page)).
C11_PageOfSortedMatches ==
    ListResponded =>
        LET skip == (inp.page - 1) * inp.per_page
            meta == resp.body.meta
            results == resp.body.results
        IN  /\ meta.total_count = ListMatchCount
            /\ meta.total_pages = Ceil(ListMatchCount, inp.per_page)
            /\ meta.count = Len(results)
            /\ Len(results) = Min(inp.per_page, Max(0, ListMatchCount - skip))
            /\ \A i \in 1..Len(results) :
                results[i][<<"_id">>] = ListMatches[skip + i][<<"_id">>]
            /\ meta.page = inp.page /\ meta.per_page = inp.per_page

\* a second page that is the last one and is not full
C11_Witness ==
    /\ ListResponded
    /\ inp.page = 2
    /\ ListMatchCount > inp.per_page
    /\ resp.body.meta.count >= 1
    /\ resp.body.meta.count < inp.per_page
    /\ resp.body.meta.total_pages = 2

\* the positions of the documents whose field key equals the requested id
WithId(key) == {i \in 1..inp.ndocs : GetCollection[i][key] = StrV(inp.entity_id)}

\* get_entity has returned or raised
GetReturned == pc = "get_done" /\ inp.fn = "get"

\* C12: get_entity returns the document whose _id equals the requested id
\* when one exists (even if another document's id equals it), otherwise the
\* document whose id equals it, and raises NotFound (404, naming the entity
\* type) exactly when neither lookup finds a document; it issues at most two
\* lookups and no other store operation.
C12_GetByIdThenAltId ==
    GetReturned =>
        /\ WithId(<<"_id">>) # {}
            => ~ret.raised /\ ret.val[<<"_id">>] = StrV(inp.entity_id)
        /\ (WithId(<<"_id">>) = {} /\ WithId(<<"id">>) # {})
            => ~ret.raised
               /\ \E i \in WithId(<<"id">>) : ret.val[<<"_id">>] = GetCollection[i][<<"_id">>]
        /\ ret.raised <=> (WithId(<<"_id">>) = {} /\ WithId(<<"id">>) = {})
        /\ ret.raised
            => ret.val = 404 /\ ret.detail = <<inp.entity_name, " ", "not", " ", "found">>
        /\ Len(calls) <= 2
        /\ \A i \in 1..Len(calls) : calls[i].op = "find_one"

\* the requested id is the _id of one document and the id of another
C12_Witness ==
    /\ GetReturned
    /\ WithId(<<"_id">>) # {}
    /\ WithId(<<"id">>) # {}
    /\ WithId(<<"_id">>) \cap WithId(<<"id">>) = {}
    /\ ~ret.raised

\* the sort of the find that list_entities has awaited
ListSortHanded == calls[Len(calls)].sort

\* the default sort field of an entity type, for a handler named in the
\* singular or in the plural
EntityDefaultSortField(entity_name) ==
    IF entity_name \in {"work", "works"} THEN <<"cited_by_count">> ELSE <<"works_count">>

\* C13: when list_entities is called with no sort parameter, the sort handed
\* to the store is [(d, descending)], d the default sort field of the
\* handler's entity type: cited_by_count for works, works_count for the
\* others; also for WorksHandler constructed with its default entity name.
C13_DefaultSortOfEntityType ==
    (ListResponded /\ inp.sort = <<>>)
        => ListSortHanded = <<SortSpec(EntityDefaultSortField(inp.entity_name), DESCENDING)>>

\* the field of a token of a sort string: the text before its first colon
TokenField(t) == IF Contains(t, <<":">>) THEN SplitOnce(t, <<":">>)[1] ELSE t

\* the direction of a token: ascending for asc in any letter case
TokenDirection(t) ==
    IF Contains(t, <<":">>) /\ Lower(SplitOnce(t, <<":">>)[2]) = <<"asc">>
    THEN ASCENDING ELSE DESCENDING

\* the tokens of the sort string of the request, and those that are not the
\* relevance sentinel
SortTokens == Split(inp.sort, <<",">>)
PlainSortTokens == SelectSeq(SortTokens, LAMBDA t : TokenField(t) # <<"relevance_score">>)

SortFields == {<<"cited_by_count">>, <<"publication_year">>, <<"relevance_score">>, <<>>}

\* what follows the field in a token
DirectionSuffixes ==
    {<<>>, <<":">>, <<":", "asc">>, <<":", "ASC">>, <<":", "Asc">>, <<":", "desc">>,
     <<":", "DESC">>, <<":", "up">>}

SortTokenSet == {f \o d : f \in SortFields, d \in DirectionSuffixes}

SortInputs ==
    {[fn |-> "parse_sort_param", text |-> Join(ts, <<",">>), tokens |-> ts, entity_type |-> e] :
        ts \in UNION {[1..n -> SortTokenSet] : n \in 1..MaxTokens},
        e \in {"works", "work"}}
    \cup {[fn |-> "parse_sort_param", text |-> <<>>, tokens |-> <<>>, entity_type |-> e] :
            e \in {"works", "work", "authors"}}

InitSort ==
    /\ pc = "ready"
    /\ inp \in SortInputs
    /\ self = NoValue
    /\ ret = NoValue
    /\ query = NoValue
    /\ resp = NoValue
    /\ calls = <<>>
    /\ fault = "none"

\* sort_specs = parse_sort_param(sort_param, entity_type)
ParseSortParam ==
    /\ pc = "ready" /\ inp.fn = "parse_sort_param"
    /\ ret' = parse_sort_param(inp.text, inp.entity_type)
    /\ pc' = "done"
    /\ UNCHANGED <<self, inp, query, resp, calls, fault>>

NextSort == ParseSortParam

SpecSort == InitSort /\ [][NextSort]_vars

\* parse_sort_param has returned for a non-empty sort string
SortParsed == pc = "done" /\ inp.fn = "parse_sort_param" /\ inp.text # <<>>

\* C15: parse_sort_param returns one (field, direction) pair per
\* comma-separated token of a non-empty sort string, in input order; the
\* direction is ascending only for asc (any letter case) and descending for
\* desc, for an omitted direction and for any unrecognized direction.
C15_PairPerToken ==
    SortParsed =>
        /\ Len(ret) = Len(inp.tokens)
        /\ \A i \in 1..Len(ret) :
            ret[i] = SortSpec(TokenField(inp.tokens[i]), TokenDirection(inp.tokens[i]))

\* C15 as amended: as C15, except that a token whose field is
\* relevance_score gives the pair (score, textScore) whatever its direction.
C15_PairPerTokenOrTextScore ==
    SortParsed =>
        /\ Len(ret) = Len(inp.tokens)
        /\ \A i \in 1..Len(ret) :
            ret[i] = IF TokenField(inp.tokens[i]) = <<"relevance_score">>
                     THEN SortSpec(<<"score">>, TEXT_SCORE)
                     ELSE SortSpec(TokenField(inp.tokens[i]),
                                   TokenDirection(inp.tokens[i]))

\* an upper-case asc next to an unrecognized direction
C15_Witness ==
    /\ SortParsed
    /\ Len(inp.tokens) = 2
    /\ inp.tokens[1] = <<"cited_by_count", ":", "ASC">>
    /\ inp.tokens[2] = <<"publication_year", ":", "up">>
    /\ ret[1].dir = ASCENDING
    /\ ret[2].dir = DESCENDING

\* parse_filter_value has returned
ValueParsed == pc = "done" /\ inp.fn = "parse_filter_value"

\* the field is a boolean field or a path that ends in one
BooleanPath(field) ==
    \E bf \in BOOLEAN_FIELDS :
        field = bf \/ (Len(field) > 2 /\ SubSeq(field, Len(field) - 1, Len(field)) = <<".">> \o bf)

\* the spellings of true, 1, yes and t among the values
TrueSpellings == {<<"true">>, <<"True">>, <<"1">>, <<"yes">>, <<"YES">>, <<"t">>, <<"T">>}

\* C16: for every boolean field and every path ending in "." plus one,
\* parse_filter_value returns true exactly when the value, compared
\* case-insensitively, is one of true, 1, yes, t, and false for every other
\* string.
C16_BooleanCoercion ==
    (ValueParsed /\ BooleanPath(inp.field))
        => ret = BoolV(inp.value \in TrueSpellings)

\* an upper-case yes on a path that ends in a boolean field
C16_Witness ==
    /\ ValueParsed
    /\ inp.field = <<"open_access", ".", "has_fulltext">>
    /\ inp.value = <<"YES">>
    /\ ret = BoolV(TRUE)

\* the value is a decimal integer: an optional sign and digits, with blanks
\* around them
ParseableInt(value) ==
    \E i, j \in 1..Len(value) :
        /\ i <= j
        /\ \A k \in 1..Len(value) : (k < i \/ k > j) => value[k] \in Whitespace
        /\ \A k \in (i + 1)..j : value[k] \in Digits
        /\ value[i] \in Digits \/ (value[i] \in {"-", "+"} /\ i < j)

\* C17: for every numeric field and every value that is not a parseable
\* integer, parse_filter_value returns the original string unchanged.
C17_UnparseableKept ==
    (ValueParsed /\ inp.field \in FILTER_TYPE_MAPPING /\ ~ParseableInt(inp.value))
        => ret = StrV(inp.value)

\* C17 as amended: for every numeric field and every value that is neither a
\* parseable integer nor null or none in any letter case, parse_filter_value
\* returns the original string unchanged.
C17_UnparseableNonNullKept ==
    ( /\ ValueParsed /\ inp.field \in FILTER_TYPE_MAPPING
      /\ ~ParseableInt(inp.value)
      /\ inp.value \notin {<<"null">>, <<"NULL">>, <<"None">>} )
        => ret = StrV(inp.value)

\* digits followed by letters on a numeric field
C17_Witness ==
    /\ ValueParsed
    /\ inp.field = <<"cited_by_count">>
    /\ inp.value = <<"1", "2", "abc">>
    /\ ret = StrV(inp.value)

\* the values at the leaves of a predicate
RECURSIVE LeafValues(_)
LeafValues(d) ==
    UNION { IF d[i].cond.c = "list"
            THEN UNION {LeafValues(d[i].cond.l[j]) : j \in 1..Len(d[i].cond.l)}
            ELSE {d[i].cond.v} : i \in 1..Len(d) }

\* the text of s after its last "/"
AfterLastSlash(s) ==
    LET at == {i \in 1..Len(s) : s[i] = "/"}
    IN  SubSeq(s, (CHOOSE i \in at : \A j \in at : j <= i) + 1, Len(s))

\* the text of s before its first ":"
BeforeFirstColon(s) ==
    LET at == {i \in 1..Len(s) : s[i] = ":"}
    IN  SubSeq(s, 1, (CHOOSE i \in at : \A j \in at : i <= j) - 1)

\* the equality value as the store is to see it: "+" read as a blank
UriWritten(v) == [i \in 1..Len(v) |-> IF v[i] = "+" THEN " " ELSE v[i]]

\* the input is an id field, the equality marker and a value with a slash
UriFilter ==
    /\ inp.field \in IdFields /\ inp.marker = <<":">>
    /\ inp.value \in UriValues /\ inp.text = inp.field \o <<":">> \o inp.value

\* C18: for a field that is id or ends in .id and an equality value that
\* contains "/", the value in the predicate produced for the filter string is
\* the substring after the last "/", and the field of the expression is the
\* text before the first ":" although the URI contains ":" too.
C18_IdFromUri ==
    /\ (UriFilter /\ inp.fn = "parse_filter_expression" /\ pc = "built")
         => /\ ret.field = BeforeFirstColon(inp.text)
            /\ ret.op = "eq"
            /\ ~query.raised
            /\ LeafValues(query.val) = {StrV(AfterLastSlash(UriWritten(inp.value)))}
    /\ (UriFilter /\ inp.fn = "parse_filter_param" /\ pc = "done")
         => /\ ~ret.raised
            /\ LeafValues(ret.val) = {StrV(AfterLastSlash(UriWritten(inp.value)))}

\* the filter string institutions.id:https://example.org/I12345 has given a
\* predicate on the institutions with the value I12345
C18_Witness ==
    /\ UriFilter /\ inp.fn = "parse_filter_param" /\ pc = "done"
    /\ inp.text = <<"institutions", ".", "id", ":", "https", ":", "/", "/",
                    "example", ".", "org", "/", "I12345">>
    /\ ret = Return(<<Entry(<<"institutions">>,
                            CElem(<<"id">>, "$eq", StrV(<<"I12345">>)))>>)

\* group_entities has answered
GroupResponded == pc = "responded" /\ inp.fn = "group" /\ resp.status = 200

\* the documents of the collection that satisfy the filter of a group request
GroupMembers == {i \in 1..inp.ndocs : Matches(Doc(i), ParsedFilter(inp.filter).val)}

\* the value a document has for the field of a group request
GroupValue(i) == FieldValue(Doc(i), Strip(inp.group_by))

RECURSIVE SumCounts(_)
SumCounts(entries) ==
    IF entries = <<>> THEN 0 ELSE Head(entries).count.n + SumCounts(Tail(entries))

\* the names of the stages of a pipeline
StageNames(pipeline) == [i \in 1..Len(pipeline) |-> pipeline[i].stage]

\* C20: group_entities runs the stages match (only for a non-empty filter
\* predicate, and then first), group, project, sort by count descending: the
\* returned list has exactly one entry per distinct value of the field among
\* the documents satisfying the filter, the counts sum to the number of those
\* documents, the entries are in non-increasing count order, and meta.count is
\* the number of entries.
C20_GroupCounts ==
    GroupResponded =>
        LET entries == resp.body.group_by
            later == <<"$group", "$project", "$sort">>
        IN  /\ Len(calls) = 1 /\ calls[1].op = "aggregate"
            /\ StageNames(calls[1].pipeline) =
                   IF ParsedFilter(inp.filter).val # <<>> THEN <<"$match">> \o later ELSE later
            /\ calls[1].pipeline[Len(calls[1].pipeline)].dir = DESCENDING
            /\ {entries[i].key : i \in 1..Len(entries)} = {GroupValue(i) : i \in GroupMembers}
            /\ \A i, j \in 1..Len(entries) : i # j => entries[i].key # entries[j].key
            /\ \A i \in 1..Len(entries) :
                   entries[i].count.n =
                       Cardinality({m \in GroupMembers : GroupValue(m) = entries[i].key})
            /\ SumCounts(entries) = Cardinality(GroupMembers)
            /\ \A i \in 1..(Len(entries) - 1) : entries[i].count.n >= entries[i + 1].count.n
            /\ resp.body.meta.count = Len(entries)

\* a filtered group request answered with two groups of different sizes, from
\* a collection that has documents outside the filter
C20_Witness ==
    /\ GroupResponded
    /\ query # <<>>
    /\ Cardinality(GroupMembers) < inp.ndocs
    /\ Len(resp.body.group_by) = 2
    /\ resp.body.group_by[1].count.n > resp.body.group_by[2].count.n

(***************************************************************************)
(* Concurrent requests on one handler.  The requests of NumProcs callers   *)
(* are in progress at once; a step of one of them runs from an await to    *)
(* the next and reads the attributes of the handler, in self, as they are  *)
(* at that moment.  pc, inp, ret, query and resp hold one value for each   *)
(* caller, calls is the one sequence of operations that reach the store.   *)
(* The store answers every operation.                                      *)
(***************************************************************************)
NumProcs == 2

Procs == 1..NumProcs

\* a request as the handler with the attributes s serves it
Bound(s, r) == [r EXCEPT !.handler = s.class, !.entity_name = s.entity_name]

\* the state of one request: its position, the request, its query, cursor or
\* outcome, its response, and the operations of its last step
LocalState(at, r, q, out, response, ops) ==
    [pc |-> at, req |-> r, query |-> q, ret |-> out, resp |-> response, calls |-> ops]

\* a request that has not started
Start(r) == LocalState("ready", r, NoValue, NoValue, NoValue, <<>>)

\* a variant of SelfAfter in which list_entities keeps the plural of its
\* entity name on the handler
SelfAfterRenaming(s, l) ==
    IF l.req.fn = "list" THEN [s EXCEPT !.entity_name = "works"] ELSE s

\* the attributes of the handler after a step of a request: no operation
\* assigns an attribute
SelfAfter(s, l) == s

\* list_entities up to its first await, fq being the outcome of parsing the
\* filter string
ListBuildStep(s, l, fq) ==
    LET r == Bound(s, l.req)
    IN  { IF q.raised
          THEN [l EXCEPT !.pc = "responded", !.resp = Response(500, NoValue), !.calls = <<>>]
          ELSE [l EXCEPT !.pc = "list_count", !.query = q.val, !.calls = <<>>,
                         !.ret = [cursor |-> Cursor(q.val,
                                    Projection(parse_select_param(r.select), FALSE),
                                    ListSort(r.sort, r.entity_name, HandlerArgs(r).sort_field),
                                    <<>>, (r.page - 1) * r.per_page, r.per_page)]]
          : q \in {UpdateQuery(NamedFilters(HandlerArgs(r), r.entity_name), fq,
                                HandlerArgs(r).extra_filters)} }

\* total_count = await self.collection.count_documents(query)
ListCountStep(s, l) ==
    { [l EXCEPT !.pc = "list_fetch",
                !.calls = <<[op |-> "count_documents", query |-> l.query]>>,
                !.ret = [cursor |-> l.ret.cursor,
                         total_count |-> CountDocuments(Collection(l.req.ndocs), l.query)]] }

\* the fetch of the page and the return of list_entities
ListFetchStep(s, l) ==
    { [l EXCEPT !.pc = "responded", !.calls = <<l.ret.cursor>>,
                !.resp = Response(200,
                    [meta |-> [count |-> Len(results), total_count |-> l.ret.total_count,
                               page |-> l.req.page, per_page |-> l.req.per_page,
                               total_pages |-> TotalPages(l.ret.total_count, l.req.per_page)],
                     results |-> results])]
      : results \in {ExecFind(Collection(l.req.ndocs), l.ret.cursor)} }

\* the search route and search_entities up to the fetch
SearchBuildStep(s, l, fq) ==
    LET r == Bound(s, l.req)
    IN  { IF fq.raised
          THEN [l EXCEPT !.pc = "responded", !.resp = Response(500, NoValue), !.calls = <<>>]
          ELSE [l EXCEPT !.pc = "search_fetch", !.query = fq.val, !.calls = <<>>,
                         !.ret = [cursor |-> Cursor(SearchQuery(r.q, fq.val),
                                    SearchProjection(r.handler, r.explain_score, r.select),
                                    SearchSort(r.sort, r.entity_name),
                                    r.q, r.skip, FetchLimit(r.limit))]] }

\* the fetch of the documents, the rest of search_entities and the return of
\* the route
SearchFetchStep(s, l) ==
    { [l EXCEPT !.pc = "responded", !.calls = <<l.ret.cursor>>,
                !.resp = Response(200, SearchResult(documents, Bound(s, l.req)))]
      : documents \in {ExecFind(Collection(l.req.ndocs), l.ret.cursor)} }

\* get_entity up to its first await, and its return when the _id is found
GetByIdStep(s, l) ==
    { IF entity = NoValue
      THEN [l EXCEPT !.pc = "get_alt",
                     !.calls = <<[op |-> "find_one", query |-> FirstLookup(l.req.entity_id)]>>]
      ELSE [l EXCEPT !.pc = "responded", !.resp = Response(200, entity),
                     !.calls = <<[op |-> "find_one", query |-> FirstLookup(l.req.entity_id)]>>]
      : entity \in {FindOne(AliasedCollection(l.req.ndocs, l.req.alias),
                            FirstLookup(l.req.entity_id),
                            Projection(parse_select_param(l.req.select), FALSE))} }

\* the lookup by id, and the return of the entity or of the 404
GetByAltIdStep(s, l) ==
    { [l EXCEPT !.pc = "responded",
                !.calls = <<[op |-> "find_one", query |-> SecondLookup(l.req.entity_id)]>>,
                !.resp = IF entity = NoValue
                         THEN Response(404, NotFound(s.entity_name).detail)
                         ELSE Response(200, entity)]
      : entity \in {FindOne(AliasedCollection(l.req.ndocs, l.req.alias),
                            SecondLookup(l.req.entity_id),
                            Projection(parse_select_param(l.req.select), FALSE))} }

\* group_entities up to its await
GroupBuildStep(s, l, fq) ==
    { IF q.raised
      THEN [l EXCEPT !.pc = "responded", !.resp = Response(500, NoValue), !.calls = <<>>]
      ELSE [l EXCEPT !.pc = "group_aggregate", !.query = q.val, !.calls = <<>>,
                     !.ret = [pipeline |-> GroupPipeline(l.req.group_by, q.val)]]
      : q \in {UpdateQuery(<<>>, fq, <<>>)} }

\* the aggregation and the return of group_entities
GroupAggregateStep(s, l) ==
    { [l EXCEPT !.pc = "responded",
                !.calls = <<[op |-> "aggregate", pipeline |-> l.ret.pipeline]>>,
                !.resp = Response(200, GroupResult(results, l.req.group_by))]
      : results \in Aggregate(Collection(l.req.ndocs), l.ret.pipeline) }

\* the states a request can be in after its next step, on a handler with the
\* attributes s
RequestStep(s, l) ==
    CASE l.pc = "ready" /\ l.req.fn \in {"list", "search", "group"} ->
            UNION { CASE l.req.fn = "list" -> ListBuildStep(s, l, fq)
                      [] l.req.fn = "search" -> SearchBuildStep(s, l, fq)
                      [] l.req.fn = "group" -> GroupBuildStep(s, l, fq)
                    : fq \in {ParsedFilter(l.req.filter)} }
      [] l.pc = "list_count" -> ListCountStep(s, l)
      [] l.pc = "list_fetch" -> ListFetchStep(s, l)
      [] l.pc = "search_fetch" -> SearchFetchStep(s, l)
      [] l.pc = "ready" /\ l.req.fn = "get" -> GetByIdStep(s, l)
      [] l.pc = "get_alt" -> GetByAltIdStep(s, l)
      [] l.pc = "group_aggregate" -> GroupAggregateStep(s, l)
      [] OTHER -> {}

\* the handlers the requests run on
ConcHandlers == {Handler("works", "work"), Handler("base", "author")}

\* the size of the collection
ConcDocs == MaxDocs

\* the requests of the callers
ConcRequests ==
    { [Request EXCEPT !.fn = "list", !.per_page = MaxPerPage],
      [Request EXCEPT !.fn = "list", !.filter = <<"type", ":", "book">>,
                      !.sort = <<"publication_year", ":", "asc">>],
      [Request EXCEPT !.fn = "search", !.q = <<"neural">>, !.explain_score = TRUE],
      [Request EXCEPT !.fn = "get", !.entity_id = ShortId(MaxDocs + 1)],
      [Request EXCEPT !.fn = "group", !.group_by = <<"type">>],
      [Request EXCEPT !.fn = "group", !.group_by = <<"publication_year">>,
                      !.filter = <<"cited_by_count", ">", "0">>] }

InitConc ==
    /\ self \in ConcHandlers
    /\ inp \in [Procs -> {[Bound(self, r) EXCEPT !.ndocs = ConcDocs] : r \in ConcRequests}]
    /\ pc = [p \in Procs |-> "ready"]
    /\ ret = [p \in Procs |-> NoValue]
    /\ query = [p \in Procs |-> NoValue]
    /\ resp = [p \in Procs |-> NoValue]
    /\ calls = <<>>
    /\ fault = "none"

\* the state of the request of caller p
Local(p) == LocalState(pc[p], inp[p], query[p], ret[p], resp[p], <<>>)

\* caller p's request takes the step n, on the handler as it is now
Advance(p, n) ==
    /\ pc' = [pc EXCEPT ![p] = n.pc]
    /\ query' = [query EXCEPT ![p] = n.query]
    /\ ret' = [ret EXCEPT ![p] = n.ret]
    /\ resp' = [resp EXCEPT ![p] = n.resp]
    /\ calls' = calls \o [i \in 1..Len(n.calls) |-> [proc |-> p, call |-> n.calls[i]]]
    /\ self' = SelfAfter(self, Local(p))
    /\ UNCHANGED <<inp, fault>>

\* a step of a list request
ConcList(p, n) == inp[p].fn = "list" /\ Advance(p, n)

\* a step of a search request
ConcSearch(p, n) == inp[p].fn = "search" /\ Advance(p, n)

\* a step of a get request
ConcGet(p, n) == inp[p].fn = "get" /\ Advance(p, n)

\* a step of a group request
ConcGroup(p, n) == inp[p].fn = "group" /\ Advance(p, n)

\* a caller's request runs from one await to the next
NextConc ==
    \E p \in Procs :
        \E n \in RequestStep(self, Local(p)) :
            \/ ConcList(p, n)
            \/ ConcSearch(p, n)
            \/ ConcGet(p, n)
            \/ ConcGroup(p, n)

SpecConc == InitConc /\ [][NextConc]_vars

\* the responses of a request that runs alone, from the state l, on a handler
\* with the attributes s
RECURSIVE AloneResponses(_, _)
AloneResponses(s, l) ==
    IF l.pc = "responded" THEN {l.resp}
    ELSE UNION {AloneResponses(SelfAfter(s, l), n) : n \in RequestStep(s, l)}

\* the attributes the handler was constructed with
ConstructedSelf == Handler(inp[1].handler, inp[1].entity_name)

\* the operations that read the store
ReadOperations == {"find", "find_one", "count_documents", "aggregate"}

\* the stages of an aggregation that write no collection
ReadStages == {"$match", "$group", "$project", "$sort"}

\* C19: for any interleaving, at their await points, of concurrent list, get,
\* search and group requests on the same handler, each response equals the
\* response the request produces when run alone against the same store; no
\* handler operation writes state another request reads, and none writes to
\* the store.
C19_RequestsIndependent ==
    /\ \A p \in Procs :
           pc[p] = "responded" => resp[p] \in AloneResponses(ConstructedSelf, Start(inp[p]))
    /\ self = ConstructedSelf
    /\ \A i \in 1..Len(calls) :
           /\ calls[i].call.op \in ReadOperations
           /\ calls[i].call.op = "aggregate"
                  => \A k \in 1..Len(calls[i].call.pipeline) :
                         calls[i].call.pipeline[k].stage \in ReadStages

\* two requests of different kinds have been answered, and the store saw an
\* operation of the second between two operations of the first
C19_Witness ==
    /\ \A p \in Procs : pc[p] = "responded" /\ resp[p].status = 200
    /\ inp[1].fn = "list" /\ inp[2].fn = "group"
    /\ \E i, j, k \in 1..Len(calls) :
           /\ i < j /\ j < k
           /\ calls[i].proc = 1 /\ calls[j].proc = 2 /\ calls[k].proc = 1

\* build_mongodb_query was called with a coerced value and has returned
BuildCalled == pc = "built" /\ inp.fn = "build_mongodb_query"

\* C21: build_mongodb_query maps a null value with operator eq to {field: null}
\* and with operator ne to {field: {$ne: null}}, for every field name, the
\* special-cased ones included: no special-field rewrite is applied.
C21_NullPredicates ==
    (BuildCalled /\ inp.arg = NullV /\ inp.op \in {"eq", "ne"})
        => query = Return(<<Entry(inp.field,
                                  IF inp.op = "eq" THEN CVal(NullV)
                                  ELSE COp("$ne", NullV))>>)

\* a null value compared for inequality on a field that has a rewrite
C21_Witness ==
    /\ BuildCalled /\ inp.arg = NullV /\ inp.op = "ne"
    /\ inp.field = <<"source", ".", "id">>
    /\ query = Return(<<Entry(<<"source", ".", "id">>, COp("$ne", NullV))>>)

\* the filter string is cites or cites.id, the equality marker and a work id
CitesFilter ==
    /\ inp.fn = "parse_filter_param"
    /\ inp.field \in {<<"cites">>, <<"cites", ".", "id">>}
    /\ inp.marker = <<":">> /\ inp.value \in WorkIdValues

\* C22: for the field cites or cites.id and an equality value that is a short
\* work id or a full URI ending in one, the predicate produced for the filter
\* string is equality of referenced_works with the short id.
C22_CitesIsReferencedWorks ==
    (pc = "done" /\ CitesFilter)
        => ret = Return(<<Entry(<<"referenced_works">>, CVal(StrV(<<"W", "1">>)))>>)

\* the MongoDB operator a comparison operator stands for
ComparisonOperator(op) ==
    (CHOOSE pair \in { <<"eq", "$eq">>, <<"gt", "$gt">>, <<"lt", "$lt">>,
                       <<"gte", "$gte">>, <<"lte", "$lte">>, <<"ne", "$ne">> } :
         pair[1] = op)[2]

\* the number of segments of a dotted path
Segments(field) == Cardinality({i \in 1..Len(field) : field[i] = "."}) + 1

\* C23: for a field source.<x>, a comparison operator op and a non-null scalar
\* v, build_mongodb_query returns an $or of exactly two conditions,
\* primary_location.source.<x> op v and locations.source.<x> op v.
C23_SourceInTwoLocations ==
    ( /\ BuildCalled /\ inp.arg # NullV
      /\ Segments(inp.field) = 2 /\ inp.field[1] = "source" )
        => query = Return(<<Entry(<<"$or">>, CList(<<
                     <<Entry(<<"primary_location", ".", "source", ".", inp.field[3]>>,
                             COp(ComparisonOperator(inp.op), inp.arg))>>,
                     <<Entry(<<"locations", ".", "source", ".", inp.field[3]>>,
                             COp(ComparisonOperator(inp.op), inp.arg))>> >>))>>)

\* source.display_name compared with lte for a string
C23_Witness ==
    /\ BuildCalled /\ inp.field = <<"source", ".", "display_name">>
    /\ inp.op = "lte" /\ inp.arg = StrV(<<"en">>)
    /\ ~query.raised /\ query.val[1].key = <<"$or">>
    /\ Len(query.val[1].cond.l) = 2

\* C24: authorships.<rest> with at least three segments gives an element-match
\* over authorships on the whole path <rest>, with the operator and the value
\* preserved; institutions.<x> and concepts.<x> give an element-match over
\* their array on <x>; authorships.<y> with two segments gives a plain
\* comparison on the full field.
C24_ElementMatches ==
    (BuildCalled /\ inp.arg # NullV) =>
        /\ (inp.field[1] = "authorships" /\ Segments(inp.field) >= 3)
               => query = Return(<<Entry(<<"authorships">>,
                                         CElem(SubSeq(inp.field, 3, Len(inp.field)),
                                               ComparisonOperator(inp.op), inp.arg))>>)
        /\ (inp.field[1] \in {"institutions", "concepts"} /\ Segments(inp.field) = 2)
               => query = Return(<<Entry(<<inp.field[1]>>,
                                         CElem(<<inp.field[3]>>,
                                               ComparisonOperator(inp.op), inp.arg))>>)
        /\ (inp.field[1] = "authorships" /\ Segments(inp.field) = 2)
               => query = Return(<<Entry(inp.field,
                                         COp(ComparisonOperator(inp.op), inp.arg))>>)

\* a path of four segments under authorships, compared with gt
C24_Witness ==
    /\ BuildCalled /\ inp.op = "gt" /\ inp.arg = IntV(0)
    /\ inp.field = <<"authorships", ".", "institutions", ".", "country_code">>
    /\ query = Return(<<Entry(<<"authorships">>,
                              CElem(<<"institutions", ".", "country_code">>, "$gt", IntV(0)))>>)

\* the router has called ESHandler.search with a filter that has conditions
EsSearchedWithFilter ==
    /\ inp.fn = "search" /\ inp.es /\ calls # <<>>
    /\ calls[1].op = "es.search" /\ calls[1].query # <<>>

\* a request body whose query is a boolean clause with the text query as its
\* must part and the filter as its filter part
MustAndFilter(body, filter_query) ==
    /\ DOMAIN body.query = {"bool"}
    /\ DOMAIN body.query["bool"] = {"must", "filter"}
    /\ body.query["bool"]["filter"] = filter_query

\* C25: when a structured filter is passed to ESHandler.search or to
\* ESIndex.search, the query of the request body is a boolean clause whose
\* must part is the text query and whose filter part is the given filter.
C25_MustAndFilter ==
    EsSearchedWithFilter =>
        /\ MustAndFilter(calls[1].body, calls[1].query)
        /\ MustAndFilter(ESIndexSearchBody(inp.q, inp.skip, inp.limit, calls[1].query),
                         calls[1].query)

\* the part of C25 that is about ESIndex.search
C25_ESIndexOnly ==
    EsSearchedWithFilter =>
        MustAndFilter(ESIndexSearchBody(inp.q, inp.skip, inp.limit, calls[1].query),
                      calls[1].query)

\* pieces the loop of parse_filter_param discards: empty, whitespace only,
\* without an operator marker
DiscardedPieces == { <<>>, <<" ">>, <<" ", " ">>, <<"junk">>, <<" ", "type", " ", "book">> }

\* the filter string with the piece e inserted after its first i expressions
WithPiece(ps, i, e) ==
    Join(SubSeq(ps, 1, i) \o <<e>> \o SubSeq(ps, i + 1, Len(ps)), <<",">>)

ParamCalled == pc = "done" /\ inp.fn = "parse_filter_param" /\ inp.field = <<>>

\* C26: inserting a piece that is empty, whitespace only or without an
\* operator marker as one more comma-separated expression at any position of
\* a filter string leaves the result of parse_filter_param unchanged, and no
\* error is raised.
C26_DiscardedNoEffect ==
    ParamCalled =>
        \A i \in 0..Len(inp.pieces) : \A e \in DiscardedPieces :
            \E with \in {parse_filter_param(WithPiece(inp.pieces, i, e))} :
                with = ret /\ ~with.raised

\* the part of C26 that does not depend on C4: the outcome is the same with
\* and without the piece, an error included
C26_OutcomeUnchanged ==
    ParamCalled =>
        \A i \in 0..Len(inp.pieces) : \A e \in DiscardedPieces :
            parse_filter_param(WithPiece(inp.pieces, i, e)) = ret

\* the expressions of a filter string that split into a non-empty field and
\* an operator
SplitExprs(text) ==
    SelectSeq(Split(text, <<",">>),
              LAMBDA e : LET p == parse_filter_expression(Strip(e))
                         IN  p.field # <<>> /\ p.op # "")

\* C27: every expression of a filter string that splits into a non-empty
\* field and an operator contributes a condition to the result of
\* parse_filter_param; f:null and f!=null yield the is-null and is-not-null
\* conditions on f and are not dropped.
C27_EveryExpressionContributes ==
    (ParamCalled /\ ~ret.raised) =>
        \A i \in 1..Len(SplitExprs(inp.text)) :
            LET p == parse_filter_expression(Strip(SplitExprs(inp.text)[i]))
                fragment == build_mongodb_query(p.field, p.op, p.value)
            IN  Count(Conditions(ret.val), fragment.val[1]) >= 1

\* C28: for a non-null scalar value, the predicate build_mongodb_query gives
\* for the operator ne differs from the one it gives for eq, whatever the
\* field.
C28_NeDiffersFromEq ==
    (BuildCalled /\ inp.op = "eq" /\ inp.arg # NullV /\ ~query.raised)
        => query # build_mongodb_query(inp.field, "ne", inp.arg)

\* the part of C28 that holds: the fields without a rewrite that drops the
\* operator
C28_PlainFieldsOnly ==
    ( /\ BuildCalled /\ inp.op = "eq" /\ inp.arg # NullV /\ ~query.raised
      /\ inp.field \notin { <<"has_doi">>, <<"has_pdf">>, <<"has_references">>, <<"is_oa">>,
                            <<"open_access", ".", "is_oa">>, <<"language">>,
                            <<"cites">>, <<"cites", ".", "id">> } )
        => query # build_mongodb_query(inp.field, "ne", inp.arg)

(***************************************************************************)
(* serve_openalex.py: list_works, and a client that pages through its      *)
(* results: the first request carries no cursor, every further request the *)
(* next_cursor of the response before, with the other parameters unchanged *)
(***************************************************************************)
\* base64.b64encode(text.encode()).decode() and its inverse
b64encode(text) == [b64 |-> text]

b64decode(cursor) == cursor.b64

\* str(value)
PyStr(v) ==
    CASE v.k = "int" -> IntToStr(v.n)
      [] v.k = "str" -> v.s
      [] v.k = "bool" -> (IF v.n = 1 THEN <<"True">> ELSE <<"False">>)
      [] OTHER -> <<"None">>

\* doc.get(key)
DocGet(doc, key) == IF key \in DOMAIN doc THEN doc[key] ELSE NullV

\* the query of the title, year and type parameters
ListWorksFilter(req) ==
    (IF req.title # <<>> THEN <<Entry(<<"title">>, CRegex(StrV(req.title)))>> ELSE <<>>)
    \o (IF req.year # 0 THEN <<Entry(<<"publication_year">>, CVal(IntV(req.year)))>> ELSE <<>>)
    \o (IF req.type # <<>> THEN <<Entry(<<"type">>, CVal(StrV(req.type)))>> ELSE <<>>)

\* sort_direction = DESCENDING if sort_order.lower() == "desc" else 1
SortDirection(sort_order) == IF Lower(sort_order) = <<"desc">> THEN DESCENDING ELSE 1

\* the condition a cursor adds: the decoded text is split at its first ":",
\* the value of a numeric field goes through int(), and the condition is
\* assigned to query[field]; any error becomes a 400
CursorCondition(cursor, sort_direction) ==
    LET decoded == b64decode(cursor)
        op == IF sort_direction = DESCENDING THEN "$lt" ELSE "$gt"
    IN  IF ~Contains(decoded, <<":">>) THEN Raise
        ELSE LET field == SplitOnce(decoded, <<":">>)[1]
                 value == SplitOnce(decoded, <<":">>)[2]
             IN  IF field \in {<<"publication_year">>, <<"cited_by_count">>}
                 THEN IF IsIntLiteral(value)
                      THEN Return(<<Entry(field, COp(op, IntV(IntOf(value))))>>)
                      ELSE Raise
                 ELSE Return(<<Entry(field, COp(op, StrV(value)))>>)

\* the order of two values under $sort: null before every other value
SortValueLess(a, b) == (a.k = "null" /\ b.k # "null") \/ ValueLess(a, b)

\* {"$sort": {sort_by: sort_direction}}: the orders of the documents the stage
\* can give; the order of documents with the same value is not defined
SortStage(docs, sort_by, sort_direction) ==
    { [i \in 1..Len(o) |-> docs[o[i]]] :
        o \in { o \in Orders(1..Len(docs)) :
                  \A i, j \in 1..Len(docs) :
                      i < j => IF sort_direction = DESCENDING
                               THEN ~SortValueLess(DocGet(docs[o[i]], sort_by),
                                                   DocGet(docs[o[j]], sort_by))
                               ELSE ~SortValueLess(DocGet(docs[o[j]], sort_by),
                                                   DocGet(docs[o[i]], sort_by)) } }

\* the response for the documents the pipeline returned (at most per_page + 1)
\* and the count of the $facet stage (total_count is in meta only with
\* include_count)
ListWorksResponse(req, fetched, total) ==
    LET has_more == Len(fetched) > req.per_page
        results == IF has_more THEN SubSeq(fetched, 1, Len(fetched) - 1) ELSE fetched
        next_cursor == IF has_more /\ results # <<>>
                       THEN b64encode(req.sort_by \o <<":">>
                                      \o PyStr(DocGet(results[Len(results)], req.sort_by)))
                       ELSE NoValue
    IN  [meta |-> [count |-> Len(results), per_page |-> req.per_page,
                   has_more |-> has_more, next_cursor |-> next_cursor,
                   sort_by |-> req.sort_by, sort_order |-> req.sort_order,
                   total_count |-> IF req.include_count THEN total ELSE NoValue],
         results |-> results]

\* list_works without group_by and with an allowed sort_by: the outcomes of
\* one request, each with the query it ran
list_works(req, cursor) ==
    LET sort_direction == SortDirection(req.sort_order)
        cond == IF cursor = NoValue THEN Return(<<>>)
                ELSE CursorCondition(cursor, sort_direction)
    IN  IF cond.raised THEN {[raised |-> TRUE, val |-> 400, query |-> NoValue]}
        ELSE LET q == DictUpdate(ListWorksFilter(req), cond.val)
                 matched == SelectSeq(Collection(req.ndocs), LAMBDA d : Matches(d, q))
             IN  { [raised |-> FALSE, query |-> q,
                    val |-> ListWorksResponse(req,
                                SubSeq(sorted, 1, IF Len(sorted) > req.per_page + 1
                                                  THEN req.per_page + 1 ELSE Len(sorted)),
                                Len(matched))] :
                     sorted \in SortStage(matched, req.sort_by, sort_direction) }

\* the requests of the paging client
CursorRequests ==
    { [fn |-> "list_works", title |-> title, year |-> year, type |-> type,
       sort_by |-> sort_by, sort_order |-> sort_order, per_page |-> per_page,
       include_count |-> include_count, ndocs |-> n] :
        title \in {<<>>, <<"neural">>}, year \in {0, 2018, 2019},
        type \in {<<>>, <<"book">>},
        sort_by \in {<<"_id">>, <<"publication_year">>, <<"cited_by_count">>},
        sort_order \in {<<"asc">>, <<"desc">>}, per_page \in 1..MaxPerPage,
        include_count \in BOOLEAN, n \in 0..MaxDocs }

\* ret collects the documents of all pages, calls the cursors sent
InitCursor ==
    /\ pc = "ready"
    /\ inp \in CursorRequests
    /\ self = NoValue
    /\ ret = <<>>
    /\ query = NoValue
    /\ resp = NoValue
    /\ calls = <<>>
    /\ fault = "none"

\* what the client does with the outcome of a request
Paged(cursor, out) ==
    /\ calls' = Append(calls, cursor)
    /\ query' = out.query
    /\ IF out.raised
       THEN /\ resp' = Response(out.val, NoValue)
            /\ pc' = "failed"
            /\ UNCHANGED ret
       ELSE /\ resp' = Response(200, out.val)
            /\ ret' = ret \o out.val.results
            /\ pc' = IF out.val.meta.next_cursor # NoValue THEN "paging" ELSE "ended"
    /\ UNCHANGED <<self, inp, fault>>

\* the first request: no cursor
ListWorksFirst ==
    /\ pc = "ready"
    /\ \E out \in list_works(inp, NoValue) : Paged(NoValue, out)

\* a further request: the cursor of the last response
ListWorksNext ==
    /\ pc = "paging"
    /\ \E out \in list_works(inp, resp.body.meta.next_cursor) :
           Paged(resp.body.meta.next_cursor, out)

NextCursor == ListWorksFirst \/ ListWorksNext

SpecCursor == InitCursor /\ [][NextCursor]_vars

\* the documents that match the filter of the request
MatchingWorks ==
    {i \in 1..inp.ndocs : Matches(Doc(i), ListWorksFilter(inp))}

\* the client has stopped paging
PagingOver == pc \in {"ended", "failed"}

\* the pages together hold every document of the set S exactly once
ExactlyOnce(S) ==
    /\ Len(ret) = Cardinality(S)
    /\ \A i \in S : \E k \in 1..Len(ret) : ret[k] = Doc(i)

\* C29: paging through list_works with the filter, sort_by, sort_order and
\* per_page held fixed over an unchanged store returns every document that
\* matches the filter exactly once and ends with a response whose has_more is
\* false and whose next_cursor is null, also when documents share the value
\* of the sort_by field and when the filter constrains the sort_by field.
C29_CursorPagination ==
    PagingOver =>
        /\ pc = "ended"
        /\ ~resp.body.meta.has_more /\ resp.body.meta.next_cursor = NoValue
        /\ ExactlyOnce(MatchingWorks)

\* the part of C29 that holds: sorted by _id, whose values are distinct and
\* which no filter parameter constrains
C29_DistinctSortValues ==
    (PagingOver /\ inp.sort_by = <<"_id">>) =>
        /\ pc = "ended"
        /\ ~resp.body.meta.has_more /\ resp.body.meta.next_cursor = NoValue
        /\ ExactlyOnce(MatchingWorks)

(***************************************************************************)
(* import_openalex.py: process_entity_files for one entity type, run twice *)
(* over the same snapshot: a first run with a limit or with one failing    *)
(* part file or batch, then a run without limit and without failure.       *)
(* A date is the number of its day (the text YYYY-MM-DD orders the same    *)
(* way); inp is the snapshot and the first run's limit, calls the batches  *)
(* written to the collection, which starts empty, ret the position of the  *)
(* run in its loops, query the last import date the run found.             *)
(***************************************************************************)
MaxDirs == 2       \* snapshot directories of the entity type
MaxParts == 2      \* part files of a snapshot directory
MaxLines == 3      \* lines of a part file
MaxBatch == 2      \* documents of a full batch (1000 in the code)
MaxImport == 2     \* limit of the first run

\* the lines of part file p of the directory with date d: line k holds the
\* record with the id <<d, p, k>>; with noid the first line has no id
PartLines(d, p, nlines, noid) ==
    [k \in 1..nlines |-> [id |-> <<d, p, k>>, has_id |-> ~(noid /\ k = 1)]]

\* process_entity: the document written for a record
ImportedDoc(data, update_date, part_file) ==
    [id |-> data.id, update_date |-> update_date, update_part |-> part_file]

\* the documents of the collection: those of the batches written
Stored == UNION {{calls[i][j] : j \in 1..Len(calls[i])} : i \in 1..Len(calls)}

\* get_last_import_date: the greatest _update_date of the collection, None
\* (0) when it is empty
get_last_import_date ==
    IF Stored = {} THEN 0
    ELSE CHOOSE d \in {doc.update_date : doc \in Stored} :
             \A doc \in Stored : doc.update_date <= d

\* result.upserted_count + result.modified_count of a bulk_write of upserts:
\* the documents the collection did not hold as they are
WrittenCount(batch, stored) ==
    Cardinality({j \in 1..Len(batch) : batch[j] \notin stored})

\* the loop over the lines of a part file, with the batch so far, and the
\* flush of the last batch: the batches written and total_imported.  The
\* loop stops at the limit; a record without id is skipped; a batch is
\* written when it has min(MaxBatch, limit - total_imported) documents; the
\* bulk_write with the number failing raises PyMongoError and its batch is
\* dropped.
RECURSIVE ReadLines(_, _, _, _, _, _, _, _, _)
ReadLines(lines, batch, total, limit, nwrites, failing, date, part, stored) ==
    IF lines = <<>> \/ (limit # 0 /\ total >= limit)
    THEN IF batch = <<>> \/ nwrites + 1 = failing
         THEN [writes |-> <<>>, total |-> total]
         ELSE [writes |-> <<batch>>, total |-> total + WrittenCount(batch, stored)]
    ELSE IF ~Head(lines).has_id
    THEN ReadLines(Tail(lines), batch, total, limit, nwrites, failing, date, part, stored)
    ELSE LET b == Append(batch, ImportedDoc(Head(lines), date, part))
             batch_size == Min(MaxBatch, IF limit # 0 THEN limit - total ELSE MaxBatch)
         IN  IF Len(b) < batch_size
             THEN ReadLines(Tail(lines), b, total, limit, nwrites, failing, date, part, stored)
             ELSE IF nwrites + 1 = failing
             THEN ReadLines(Tail(lines), <<>>, total, limit, nwrites + 1, failing,
                            date, part, stored)
             ELSE LET rest == ReadLines(Tail(lines), <<>>,
                                        total + WrittenCount(b, stored), limit,
                                        nwrites + 1, failing, date, part, stored)
                  IN  [writes |-> <<b>> \o rest.writes, total |-> rest.total]

\* the snapshots and the limit of the first run (0: no limit)
ImportInputs ==
    { [fn |-> "process_entity_files", ndirs |-> nd, nparts |-> np, nlines |-> nl,
       noid |-> noid, limit |-> limit] :
        nd \in 1..MaxDirs, np \in 1..MaxParts, nl \in 1..MaxLines,
        noid \in BOOLEAN, limit \in 0..MaxImport }

InitImport ==
    /\ pc = "ready"
    /\ inp \in ImportInputs
    /\ self = NoValue
    /\ ret = [run |-> 1, dirs |-> <<>>, d |-> 0, p |-> 0, total |-> 0]
    /\ query = NoValue
    /\ resp = NoValue
    /\ calls = <<>>
    /\ fault = "none"

\* the limit of the run
RunLimit == IF ret.run = 1 THEN inp.limit ELSE 0

\* the run is over: the first is followed by the second
RunOver == IF ret.run = 1 THEN "rerun" ELSE "finished"

\* process_entity_files up to its loops: the last import date is read and the
\* snapshot directories, sorted by date, are filtered to the later ones
StartImport ==
    /\ pc \in {"ready", "rerun"}
    /\ LET last_import_date == get_last_import_date
           snapshot_dirs == SelectSeq([d \in 1..inp.ndirs |-> d],
                                      LAMBDA d : last_import_date = 0 \/ d > last_import_date)
       IN  /\ query' = last_import_date
           /\ ret' = [run |-> IF pc = "ready" THEN 1 ELSE 2, dirs |-> snapshot_dirs,
                      d |-> 1, p |-> 1, total |-> 0]
           /\ pc' = IF snapshot_dirs = <<>>
                    THEN (IF pc = "ready" THEN "rerun" ELSE "finished")
                    ELSE "importing"
    /\ UNCHANGED <<self, inp, resp, calls, fault>>

\* one round of the loop over the part files of a snapshot directory: at the
\* limit the loop is left for the next directory; otherwise the file is read
\* and its batches are written.  In the first run one file may fail to open
\* or one bulk_write may fail.
ImportPartFile ==
    /\ pc = "importing"
    /\ ret.d <= Len(ret.dirs)
    /\ IF RunLimit # 0 /\ ret.total >= RunLimit
       THEN /\ ret' = [ret EXCEPT !.d = ret.d + 1, !.p = 1]
            /\ UNCHANGED <<calls, fault>>
       ELSE \E failing \in IF ret.run = 1 /\ fault = "none" THEN 0..(MaxLines + 1) ELSE {0} :
              LET date == ret.dirs[ret.d]
                  read == IF failing = MaxLines + 1
                          THEN [writes |-> <<>>, total |-> ret.total]
                          ELSE ReadLines(PartLines(date, ret.p, inp.nlines, inp.noid), <<>>,
                                         ret.total, RunLimit, 0, failing, date, ret.p,
                                         Stored)
              IN  /\ failing # 0 => failing = MaxLines + 1 \/ failing <= inp.nlines
                  /\ calls' = calls \o read.writes
                  /\ fault' = IF failing = 0 THEN fault
                              ELSE IF failing = MaxLines + 1 THEN "file" ELSE "batch"
                  /\ ret' = IF ret.p < inp.nparts
                            THEN [ret EXCEPT !.p = ret.p + 1, !.total = read.total]
                            ELSE [ret EXCEPT !.d = ret.d + 1, !.p = 1, !.total = read.total]
    /\ UNCHANGED <<self, inp, query, resp, pc>>

\* the loops are over and process_entity_files returns
EndImport ==
    /\ pc = "importing"
    /\ ret.d > Len(ret.dirs)
    /\ pc' = RunOver
    /\ UNCHANGED <<self, inp, ret, query, resp, calls, fault>>

NextImport == StartImport \/ ImportPartFile \/ EndImport

SpecImport == InitImport /\ [][NextImport]_vars

\* the ids of the records with an id of the snapshot directory with date d
SnapshotIds(d) ==
    {<<d, p, k>> : p \in 1..inp.nparts, k \in (IF inp.noid THEN 2 ELSE 1)..inp.nlines}

StoredIds == {doc.id : doc \in Stored}

\* C30: after a run of process_entity_files that stopped early followed by a
\* second run without limit over the same snapshot directories, every record
\* with an id of every snapshot directory is in the collection; a snapshot
\* directory is filtered out by the last-import date only when all of its
\* records were already imported.
C30_NothingSkipped ==
    /\ pc = "finished" => \A d \in 1..inp.ndirs : SnapshotIds(d) \subseteq StoredIds
    /\ (ret.run = 2 /\ pc = "importing") =>
           \A d \in 1..inp.ndirs :
               (\A i \in 1..Len(ret.dirs) : ret.dirs[i] # d)
                   => SnapshotIds(d) \subseteq StoredIds

\* the part of C30 that holds: a first run with neither limit nor failure
\* leaves nothing to the second
C30_CompleteFirstRun ==
    (pc = "finished" /\ inp.limit = 0 /\ fault = "none")
        => \A d \in 1..inp.ndirs : SnapshotIds(d) \subseteq StoredIds

====
